---------------------------- MODULE Spec2Model ----------------------------
(***************************************************************************)
(* Model of the ESPHome component manager: the crawler (scraper.py) with   *)
(* the main window's scraping handlers (gui/main_window.py), the SQLite    *)
(* store (database.py), the entity model (models/) and the document        *)
(* generator and validator (utils/).                                       *)
(*                                                                         *)
(* Each part has its own specification over its own variables; the         *)
(* variables of the other parts are parked at a constant value.            *)
(***************************************************************************)
EXTENDS Integers, Sequences, FiniteSets, TLC

VARIABLES
    \* ---- crawler and main window ----
    is_scraping,      \* MainWindow.is_scraping
    scraping_thread,  \* MainWindow.scraping_thread: 0 (None) or a thread id
    mainPc,           \* where the GUI thread is: event loop, a modal dialog, a handler
    mainRet,          \* the GUI thread's position to return to when a handler ends
    mainQueue,        \* queued cross-thread signals awaiting delivery in the GUI thread
    is_canceled,      \* ESPHomeScraper._is_canceled
    components_data,  \* ESPHomeScraper.components_data (keys of the cache)
    db_components,    \* keys of the component rows the crawler has saved
    thr,              \* ScrapingThread objects: locals of run_scraping and what it emitted
    started,          \* number of ScrapingThread objects created so far
    cancelReq         \* observation: the thread, its position and the number of links it
                      \* had processed when cancel_scraping first set the flag for it

VARIABLES
    \* ---- the component store (database.py) ----
    db,               \* the committed database: the components and config_variables tables
    wconn,            \* the crawler's connection inside save_component
    rconn,            \* the GUI's connection inside load_component / search_components
    dbCalls,          \* number of save, load and search calls made so far
    committedSeen     \* observation: per key, the committed components a read overlapped

VARIABLES
    \* ---- one ConfigVariable (models/config_variable.py) ----
    config_var,       \* the ConfigVariable object, NoConfigVariable before it is constructed
    set_call          \* the last set_value call: its argument and what it returned

VARIABLES
    \* ---- ESPHomeComponent instances (models/component.py) ----
    instances,        \* the live ESPHomeComponent objects, in order of creation
    uuids,            \* how many values uuid.uuid4() has returned so far
    lastCall          \* the last call on an instance and what it returned

storeVars == <<db, wconn, rconn, dbCalls, committedSeen>>

variableVars == <<config_var, set_call>>

instanceVars == <<instances, uuids, lastCall>>

VARIABLES
    \* ---- YAMLGenerator (utils/yaml_generator.py) ----
    yaml_call         \* the last generate_esphome_config call: the components it was
                      \* given and the configuration it handed to the serializer

generatorVars == <<yaml_call>>

VARIABLES
    \* ---- YAMLGenerator._generate_component_config ----
    entry_call        \* the last _generate_component_config call: the component it
                      \* was given and the entry it returned

entryVars == <<entry_call>>

VARIABLES
    \* ---- YAMLGenerator.merge_yaml_configs, _deep_merge ----
    merge_call        \* the last merge: the objects before and after the second
                      \* document was merged into merged_config

mergeVars == <<merge_call>>

VARIABLES
    \* ---- ConfigValidator.validate_by_type ----
    validate_call     \* the last validate_by_type call: its arguments and result

validateVars == <<validate_call>>

VARIABLES
    \* ---- ESPHomeScraper.scrape_component_page: the configuration variables ----
    extract_call      \* the last extraction: the page and the config_vars it gave

extractVars == <<extract_call>>

crawlVars == <<is_scraping, scraping_thread, mainPc, mainRet, mainQueue, is_canceled,
               components_data, db_components, thr, started, cancelReq>>

-----------------------------------------------------------------------------
(* Generic helpers *)

Range(s) == {s[i] : i \in 1..Len(s)}

Take(s, n) == SubSeq(s, 1, IF n < Len(s) THEN n ELSE Len(s))

SeqsUpTo(S, n) == UNION {[1..k -> S] : k \in 0..n}

NoDup(s) == \A i, j \in 1..Len(s) : i # j => s[i] # s[j]

\* all orderings of a finite set, as sequences
Orderings(S) == {s \in [1..Cardinality(S) -> S] : Range(s) = S}

-----------------------------------------------------------------------------
(* Bounds *)

MaxAnchors == 2      \* anchors on a listing page
MaxRuns == 2         \* ScrapingThread objects created in one behaviour
MaxComponentsArg == 2  \* largest max_components the user enters
MaxDbCalls == 3      \* save_component, load_component and search_components calls


-----------------------------------------------------------------------------
(* Listing page and link discovery (scraper.py) *)

\* link texts: two component names, and a text the filters reject
LinkTexts == {"dht", "gpio", "#top"}

\* hrefs of the anchors of a listing page
Hrefs == {"/components/sensor/dht.html", "/components/switch/gpio.html",
          "https://esphome.io/components/sensor/dht.html", "/guides/faq.html"}

Regions == {"rst-content", "toctree-wrapper", "nav", "body"}

Anchors == [text : LinkTexts, href : Hrefs, region : Regions]

\* the listing pages: the anchors in document order
Pages == SeqsUpTo(Anchors, MaxAnchors)

\* href.startswith('/components/')
StartsWithComponents(href) ==
    href \in {"/components/sensor/dht.html", "/components/switch/gpio.html"}

\* '/components/' in href
ContainsComponents(href) == href # "/guides/faq.html"

\* href.count('/')
SlashCount(href) ==
    CASE href = "/guides/faq.html" -> 2
      [] href = "https://esphome.io/components/sensor/dht.html" -> 5
      [] OTHER -> 3

\* href.count('/') >= 2
TwoSlashes(href) == SlashCount(href) >= 2

\* urljoin(BASE_URL, href)
urljoin(href) ==
    CASE href = "/components/sensor/dht.html" -> "https://esphome.io/components/sensor/dht.html"
      [] href = "/components/switch/gpio.html" -> "https://esphome.io/components/switch/gpio.html"
      [] href = "/guides/faq.html" -> "https://esphome.io/guides/faq.html"
      [] OTHER -> href

\* link_text and not link_text.startswith('#')
TextOk(text) == text # "" /\ text # "#top"

LinkOf(a) == <<a.text, urljoin(a.href)>>

RECURSIVE LinksWhere(_, _, _)
\* the (text, url) pairs, in document order, of the anchors of a region that pass a rule
LinksWhere(page, region, strict) ==
    IF page = <<>> THEN <<>>
    ELSE LET a == Head(page)
             keep == /\ (region = "any" \/ a.region = region)
                     /\ IF strict THEN StartsWithComponents(a.href) /\ TwoSlashes(a.href)
                                  ELSE ContainsComponents(a.href)
                     /\ TextOk(a.text)
         IN (IF keep THEN <<LinkOf(a)>> ELSE <<>>) \o LinksWhere(Tail(page), region, strict)

RECURSIVE UniqueByUrl(_, _)
\* "Remove duplicates while preserving order": the first link of every URL
UniqueByUrl(links, seen) ==
    IF links = <<>> THEN <<>>
    ELSE IF Head(links)[2] \in seen THEN UniqueByUrl(Tail(links), seen)
         ELSE <<Head(links)>> \o UniqueByUrl(Tail(links), seen \cup {Head(links)[2]})

\* _extract_component_links: content area, then toctree, then navigation menus
ExtractComponentLinks(page) ==
    UniqueByUrl(LinksWhere(page, "rst-content", TRUE)
                \o LinksWhere(page, "toctree-wrapper", FALSE)
                \o LinksWhere(page, "nav", FALSE), {})

\* the raw scan of every anchor, then list(set(component_links)): the distinct
\* (text, url) tuples in the order the set happens to iterate
FallbackLinks(page) == Orderings(Range(LinksWhere(page, "any", FALSE)))

\* the values component_links can have at line 555
DiscoverLinks(page) ==
    IF ExtractComponentLinks(page) # <<>> THEN {ExtractComponentLinks(page)}
    ELSE FallbackLinks(page)

\* the same, over every listing page
DiscoveredLinks == UNION {DiscoverLinks(page) : page \in Pages}

-----------------------------------------------------------------------------
(* The worker thread: ScrapingThread.run -> ESPHomeScraper.run_scraping *)

Threads == 1..MaxRuns

NoThread == [pc |-> "none", max |-> 0, links |-> <<>>, i |-> 0, scraped |-> 0,
             failed |-> 0, events |-> <<>>, found |-> <<>>, outcomes |-> <<>>,
             errors |-> 0, finished |-> 0, cancel_logged |-> FALSE]

NoCancel == [t |-> 0, done |-> 0, pc |-> "none"]

\* QThread.isRunning()
IsRunning(t) == thr[t].pc \notin {"none", "done"}

\* the catalog key of the component a page yields (one component per page)
ComponentKey(url) == url

\* the component-page requests a run issued, in order
Fetched(t) == SelectSeq(thr[t].events, LAMBDA e : e # "sleep")

\* line 526: run_scraping clears the flag
Reset(t) ==
    /\ thr[t].pc = "start"
    /\ is_canceled' = FALSE
    /\ thr' = [thr EXCEPT ![t].pc = "listing"]
    /\ UNCHANGED <<is_scraping, scraping_thread, mainPc, mainRet, mainQueue,
                   components_data, db_components, started, cancelReq>>

\* (variant) the error is emitted and run_scraping goes on instead of returning
FetchListingFailsNoReturn(t) ==
    /\ thr[t].pc = "listing"
    /\ thr' = [thr EXCEPT ![t].pc = "after_loop", ![t].errors = @ + 1]
    /\ mainQueue' = Append(mainQueue, "error")
    /\ UNCHANGED <<is_scraping, scraping_thread, mainPc, mainRet, is_canceled,
                   components_data, db_components, started, cancelReq>>

\* lines 530-535: the listing page cannot be fetched
FetchListingFails(t) ==
    /\ thr[t].pc = "listing"
    /\ thr' = [thr EXCEPT ![t].pc = "returned", ![t].errors = @ + 1]
    /\ mainQueue' = Append(mainQueue, "error")
    /\ UNCHANGED <<is_scraping, scraping_thread, mainPc, mainRet, is_canceled,
                   components_data, db_components, started, cancelReq>>

\* lines 530-563: the listing page is fetched and its links are discovered
FetchListing(t) ==
    /\ thr[t].pc = "listing"
    /\ \E links \in DiscoveredLinks :
         IF links = <<>>
         THEN /\ thr' = [thr EXCEPT ![t].pc = "returned", ![t].errors = @ + 1]
              /\ mainQueue' = Append(mainQueue, "error")
         ELSE /\ thr' = [thr EXCEPT ![t].pc = "check",
                                    ![t].links = Take(links, thr[t].max),
                                    ![t].i = 0, ![t].scraped = 0, ![t].failed = 0]
              /\ UNCHANGED mainQueue
    /\ UNCHANGED <<is_scraping, scraping_thread, mainPc, mainRet, is_canceled,
                   components_data, db_components, started, cancelReq>>

\* (variant) the loop boundary does not read the flag
CheckCanceledIgnored(t) ==
    /\ thr[t].pc = "check"
    /\ thr' = [thr EXCEPT ![t].pc = "scrape"]
    /\ UNCHANGED <<is_scraping, scraping_thread, mainPc, mainRet, mainQueue, is_canceled,
                   components_data, db_components, started, cancelReq>>

\* lines 569-572: the loop boundary, where the flag is read
CheckCanceled(t) ==
    /\ thr[t].pc = "check"
    /\ IF is_canceled
       THEN thr' = [thr EXCEPT ![t].pc = "after_loop", ![t].cancel_logged = TRUE]
       ELSE thr' = [thr EXCEPT ![t].pc = "scrape"]
    /\ UNCHANGED <<is_scraping, scraping_thread, mainPc, mainRet, mainQueue, is_canceled,
                   components_data, db_components, started, cancelReq>>

\* lines 574-577: the request for the component page goes out
ScrapeBegin(t) ==
    /\ thr[t].pc = "scrape"
    /\ thr' = [thr EXCEPT ![t].pc = "scraping",
                          ![t].events = Append(@, thr[t].links[thr[t].i + 1][2])]
    /\ UNCHANGED <<is_scraping, scraping_thread, mainPc, mainRet, mainQueue, is_canceled,
                   components_data, db_components, started, cancelReq>>

\* (variant) a page that yields no component ends the run with an error
ScrapeEndFatal(t) ==
    /\ thr[t].pc = "scraping"
    /\ thr' = [thr EXCEPT ![t].pc = "returned", ![t].i = @ + 1, ![t].errors = @ + 1,
                          ![t].outcomes = Append(@, "failed")]
    /\ mainQueue' = Append(mainQueue, "error")
    /\ UNCHANGED <<is_scraping, scraping_thread, mainPc, mainRet, is_canceled,
                   components_data, db_components, started, cancelReq>>

\* lines 577-590: scrape_component_page returns, the component is saved and reported
ScrapeEnd(t) ==
    /\ thr[t].pc = "scraping"
    /\ LET link == thr[t].links[thr[t].i + 1]
           key == ComponentKey(link[2])
           last == ~(thr[t].i < Len(thr[t].links) - 1)
           nextpc == IF last THEN "after_loop" ELSE "sleep"
           nexti == IF last THEN thr[t].i + 1 ELSE thr[t].i
       IN \/ \* the page yields no component
             /\ thr' = [thr EXCEPT ![t].pc = nextpc, ![t].i = nexti,
                                   ![t].failed = @ + 1,
                                   ![t].outcomes = Append(@, "failed")]
             /\ UNCHANGED <<components_data, db_components>>
          \/ \* a component, and save_component returns True
             /\ thr' = [thr EXCEPT ![t].pc = nextpc, ![t].i = nexti,
                                   ![t].scraped = @ + 1,
                                   ![t].found = Append(@, link),
                                   ![t].outcomes = Append(@, "saved")]
             /\ db_components' = db_components \cup {key}
             /\ components_data' = components_data \cup {key}
          \/ \* a component, and save_component returns False
             /\ thr' = [thr EXCEPT ![t].pc = nextpc, ![t].i = nexti,
                                   ![t].outcomes = Append(@, "unsaved")]
             /\ components_data' = components_data \cup {key}
             /\ UNCHANGED db_components
    /\ UNCHANGED <<is_scraping, scraping_thread, mainPc, mainRet, mainQueue, is_canceled,
                   started, cancelReq>>

\* line 591: the delay between two requests
Sleep(t) ==
    /\ thr[t].pc = "sleep"
    /\ thr' = [thr EXCEPT ![t].pc = "check", ![t].i = @ + 1,
                          ![t].events = Append(@, "sleep")]
    /\ UNCHANGED <<is_scraping, scraping_thread, mainPc, mainRet, mainQueue, is_canceled,
                   components_data, db_components, started, cancelReq>>

\* lines 593-596: after the loop
AfterLoop(t) ==
    /\ thr[t].pc = "after_loop"
    /\ IF ~is_canceled
       THEN /\ thr' = [thr EXCEPT ![t].pc = "returned", ![t].finished = @ + 1]
            /\ mainQueue' = Append(mainQueue, "finished")
       ELSE /\ thr' = [thr EXCEPT ![t].pc = "returned"]
            /\ UNCHANGED mainQueue
    /\ UNCHANGED <<is_scraping, scraping_thread, mainPc, mainRet, is_canceled,
                   components_data, db_components, started, cancelReq>>

\* run() returns: the thread is no longer running
ThreadExit(t) ==
    /\ thr[t].pc = "returned"
    /\ thr' = [thr EXCEPT ![t].pc = "done"]
    /\ UNCHANGED <<is_scraping, scraping_thread, mainPc, mainRet, mainQueue, is_canceled,
                   components_data, db_components, started, cancelReq>>


-----------------------------------------------------------------------------
(* The GUI thread: MainWindow's scraping handlers (gui/main_window.py).     *)
(* The scraper's signals are emitted in the worker thread and delivered to *)
(* the window's slots through the GUI thread's event queue.                *)

\* (variant) start_scraping without the is_scraping test
StartScrapingUnguarded ==
    /\ mainPc = "idle"
    /\ started < MaxRuns
    /\ mainPc' = "input_dialog"
    /\ UNCHANGED <<is_scraping, scraping_thread, mainRet, mainQueue, is_canceled,
                   components_data, db_components, thr, started, cancelReq>>

\* start_scraping, lines 456-465: not scraping, so the options dialog opens
\* (while is_scraping holds, the handler returns at once)
StartScraping ==
    /\ mainPc = "idle"
    /\ ~is_scraping
    /\ started < MaxRuns
    /\ mainPc' = "input_dialog"
    /\ UNCHANGED <<is_scraping, scraping_thread, mainRet, mainQueue, is_canceled,
                   components_data, db_components, thr, started, cancelReq>>

\* start_scraping, lines 466-467: the dialog is dismissed
InputDialogRejected ==
    /\ mainPc = "input_dialog"
    /\ mainPc' = "idle"
    /\ UNCHANGED <<is_scraping, scraping_thread, mainRet, mainQueue, is_canceled,
                   components_data, db_components, thr, started, cancelReq>>

\* start_scraping, lines 469-479: the thread is created and started; the thread
\* objects of ended runs are no longer referenced
InputDialogAccepted ==
    /\ mainPc = "input_dialog"
    /\ \E max_components \in 1..MaxComponentsArg :
         thr' = [t \in Threads |->
                   IF t = started + 1
                   THEN [NoThread EXCEPT !.pc = "start", !.max = max_components]
                   ELSE IF thr[t].pc = "done" THEN NoThread ELSE thr[t]]
    /\ is_scraping' = TRUE
    /\ started' = started + 1
    /\ scraping_thread' = started + 1
    /\ mainPc' = "idle"
    /\ UNCHANGED <<mainRet, mainQueue, is_canceled, components_data, db_components,
                   cancelReq>>

\* MainWindow.cancel_scraping -> ESPHomeScraper.cancel_scraping, for a running thread
CancelScraping ==
    /\ mainPc = "idle"
    /\ scraping_thread # 0
    /\ IsRunning(scraping_thread)
    /\ is_canceled' = TRUE
    /\ cancelReq' = IF is_canceled /\ cancelReq.t = scraping_thread THEN cancelReq
                    ELSE [t |-> scraping_thread,
                          done |-> Len(thr[scraping_thread].outcomes),
                          pc |-> thr[scraping_thread].pc]
    /\ UNCHANGED <<is_scraping, scraping_thread, mainPc, mainRet, mainQueue,
                   components_data, db_components, thr, started>>

\* on_scraping_finished, lines 491-502: delivered by the event loop (also the one
\* of the options dialog); then the handler waits for the thread
OnScrapingFinished ==
    /\ mainPc \in {"idle", "input_dialog"}
    /\ mainQueue # <<>>
    /\ Head(mainQueue) = "finished"
    /\ mainQueue' = Tail(mainQueue)
    /\ is_scraping' = FALSE
    /\ mainRet' = mainPc
    /\ mainPc' = "handler_wait"
    /\ UNCHANGED <<scraping_thread, is_canceled, components_data, db_components, thr,
                   started, cancelReq>>

\* on_scraping_error, lines 505-513: the handler stays in the modal message box
OnScrapingError ==
    /\ mainPc \in {"idle", "input_dialog"}
    /\ mainQueue # <<>>
    /\ Head(mainQueue) = "error"
    /\ mainQueue' = Tail(mainQueue)
    /\ is_scraping' = FALSE
    /\ mainRet' = mainPc
    /\ mainPc' = "error_box"
    /\ UNCHANGED <<scraping_thread, is_canceled, components_data, db_components, thr,
                   started, cancelReq>>

\* the message box is closed
ErrorBoxClosed ==
    /\ mainPc = "error_box"
    /\ mainPc' = "handler_wait"
    /\ UNCHANGED <<is_scraping, scraping_thread, mainRet, mainQueue, is_canceled,
                   components_data, db_components, thr, started, cancelReq>>

\* lines 501-503 and 515-517: scraping_thread.wait() returns, the reference is dropped
HandlerWaitDone ==
    /\ mainPc = "handler_wait"
    /\ scraping_thread # 0 => ~IsRunning(scraping_thread)
    /\ scraping_thread' = 0
    /\ mainPc' = mainRet
    /\ mainRet' = "idle"
    /\ UNCHANGED <<is_scraping, mainQueue, is_canceled, components_data, db_components,
                   thr, started, cancelReq>>

-----------------------------------------------------------------------------
(* The crawl specification *)

CrawlInit ==
    /\ is_scraping = FALSE
    /\ scraping_thread = 0
    /\ mainPc = "idle"
    /\ mainRet = "idle"
    /\ mainQueue = <<>>
    /\ is_canceled = FALSE
    /\ components_data = {}
    /\ db_components = {}
    /\ thr = [t \in Threads |-> NoThread]
    /\ started = 0
    /\ cancelReq = NoCancel

-----------------------------------------------------------------------------
(* Properties of the crawl *)

Ended(t) == thr[t].pc \in {"returned", "done"}

UrlsOf(links) == [j \in 1..Len(links) |-> links[j][2]]

RECURSIVE SavedLinks(_, _)
\* the links, among the first Len(outcomes), whose component was saved
SavedLinks(links, outcomes) ==
    IF outcomes = <<>> THEN <<>>
    ELSE (IF Head(outcomes) = "saved" THEN <<Head(links)>> ELSE <<>>)
         \o SavedLinks(Tail(links), Tail(outcomes))

\* cancel_scraping was called for run t between the end of link k and the next
\* loop-boundary check, with k < n links processed
CanceledAtBoundary(t) ==
    /\ cancelReq.t = t
    /\ cancelReq.pc \in {"sleep", "check"}

\* C1: a run canceled after its k-th link and before the next loop-boundary check
\* (k < n) has fetched exactly the first k component pages and no other, has
\* reported exactly the components of the first k links that were extracted and
\* saved (all of them in the store), and ends canceled: the cancellation is
\* logged, and neither finished nor an error is emitted.
C1_CancelAtBoundary ==
    \A t \in Threads :
        (Ended(t) /\ CanceledAtBoundary(t)) =>
            LET k == cancelReq.done IN
            /\ k < Len(thr[t].links)
            /\ Fetched(t) = UrlsOf(SubSeq(thr[t].links, 1, k))
            /\ Len(thr[t].outcomes) = k
            /\ thr[t].found = SavedLinks(thr[t].links, thr[t].outcomes)
            /\ \A j \in 1..Len(thr[t].found) :
                   ComponentKey(thr[t].found[j][2]) \in db_components
            /\ thr[t].scraped = Len(thr[t].found)
            /\ thr[t].cancel_logged
            /\ thr[t].finished = 0
            /\ thr[t].errors = 0

\* a run of two links, canceled after the first one was extracted and saved, has ended
C1_Witness ==
    \E t \in Threads :
        /\ thr[t].pc = "done"
        /\ CanceledAtBoundary(t)
        /\ cancelReq.done = 1
        /\ Len(thr[t].links) = 2
        /\ thr[t].outcomes = <<"saved">>

\* C2: a run that emits an error emits exactly one, has found no link to process,
\* has fetched no component page, saved and reported nothing and emits no finished;
\* and a run that ended with no link to process has emitted that error.
C2_FatalRun ==
    \A t \in Threads :
        /\ thr[t].errors > 0 =>
              /\ thr[t].errors = 1
              /\ Ended(t)
              /\ thr[t].links = <<>>
              /\ thr[t].events = <<>>
              /\ thr[t].outcomes = <<>>
              /\ thr[t].found = <<>>
              /\ thr[t].finished = 0
        /\ (Ended(t) /\ thr[t].links = <<>>) => thr[t].errors = 1

\* a run has ended with its error emitted
C2_Witness ==
    \E t \in Threads : thr[t].pc = "done" /\ thr[t].errors = 1 /\ thr[t].links = <<>>

\* C3: a run for which cancel_scraping was never called, once ended with links to
\* process, has attempted every link of its list in order, every component it
\* saved is in the store, and it has emitted finished and no error.
C3_PageFailuresNotFatal ==
    \A t \in Threads :
        (Ended(t) /\ thr[t].links # <<>> /\ cancelReq.t # t) =>
            /\ Fetched(t) = UrlsOf(thr[t].links)
            /\ Len(thr[t].outcomes) = Len(thr[t].links)
            /\ thr[t].scraped + thr[t].failed <= Len(thr[t].links)
            /\ \A j \in 1..Len(thr[t].links) :
                   thr[t].outcomes[j] = "saved" =>
                       ComponentKey(thr[t].links[j][2]) \in db_components
            /\ thr[t].finished = 1
            /\ thr[t].errors = 0

\* a run of two links has ended whose first page failed and whose second was saved
C3_Witness ==
    \E t \in Threads :
        /\ thr[t].pc = "done"
        /\ cancelReq.t # t
        /\ thr[t].outcomes = <<"failed", "saved">>
        /\ thr[t].finished = 1

\* C4: at most one ScrapingThread is running at any time.
C4_OneCrawl == Cardinality({t \in Threads : IsRunning(t)}) <= 1

\* a second crawl is running, started after the first one ended
C4_Witness == started = 2 /\ scraping_thread = 2 /\ thr[2].pc = "scraping"

\* C6 (as claimed): the links of a run hold no URL twice and at most max_components
\* links, so that no run fetches a URL twice.
C6_NoUrlTwice ==
    \A t \in Threads :
        /\ NoDup(UrlsOf(thr[t].links))
        /\ NoDup(Fetched(t))
        /\ Len(Fetched(t)) <= thr[t].max


\* the last outcome of run t was appended by this step, and is o
Processed(t, o) ==
    /\ Len(thr'[t].outcomes) = Len(thr[t].outcomes) + 1
    /\ thr'[t].outcomes[Len(thr'[t].outcomes)] = o

\* C24: when save_component returns false for an extracted component, the run
\* goes on to the next link (or to the end of the loop), the component is not
\* reported via component_found, and components_data is unchanged by the link.
C24_StoreFailureKeepsCache ==
    [][\A t \in Threads :
           Processed(t, "unsaved") =>
               /\ thr'[t].pc \in {"sleep", "after_loop"}
               /\ thr'[t].found = thr[t].found
               /\ components_data' = components_data]_crawlVars

\* C25: a run in which every link was processed without the flag being seen at
\* a loop-boundary check, also when cancellation was requested while the last
\* link was being processed, ends Completed: finished is emitted, no error.
C25_CompletedUnlessSeenAtBoundary ==
    \A t \in Threads :
        (/\ Ended(t)
         /\ thr[t].links # <<>>
         /\ Len(thr[t].outcomes) = Len(thr[t].links)
         /\ ~thr[t].cancel_logged)
            => thr[t].finished = 1 /\ thr[t].errors = 0

\* C26: the delay occurs between every two consecutive component-page fetches
\* of a run and never after the last fetch the run issues, whether the run ends
\* by exhausting the links or by cancellation.
C26_DelayOnlyBetweenFetches ==
    \A t \in Threads :
        /\ \A j \in 1..(Len(thr[t].events) - 1) :
               (thr[t].events[j] = "sleep") # (thr[t].events[j + 1] = "sleep")
        /\ (Ended(t) /\ thr[t].events # <<>>)
               => thr[t].events[Len(thr[t].events)] # "sleep"

\* C27: every processed link is counted exactly once: scraped_count +
\* failed_count is the number of links processed so far, and scraped_count is
\* the number of component_found notifications.
C27_EveryLinkCounted ==
    \A t \in Threads :
        /\ thr[t].scraped + thr[t].failed = Len(thr[t].outcomes)
        /\ thr[t].scraped = Len(thr[t].found)

\* C28: every crawl that is started eventually ends with the main window idle
\* again: after run_scraping returns, is_scraping is reset to false.
C28_CrawlEndsIdle == is_scraping ~> ~is_scraping

\* the links a run may still process after a request made at position pc: the
\* one in progress, none once the next check is ahead
InProgress(pc) == IF pc \in {"scrape", "scraping"} THEN 1 ELSE 0

\* C29: a cancellation requested at any moment while the thread is running,
\* also before run_scraping has executed its first statement, is seen at the
\* run's next loop-boundary check: no link is processed after that check.
C29_CancelNeverLost ==
    \A t \in Threads :
        (Ended(t) /\ cancelReq.t = t)
            => Len(thr[t].outcomes) <= cancelReq.done + InProgress(cancelReq.pc)

-----------------------------------------------------------------------------
(* Python strings, as sequences of one-character strings *)

UpperLetters == <<"A", "B", "C", "D", "E", "F", "G", "H", "I", "J", "K", "L", "M",
                  "N", "O", "P", "Q", "R", "S", "T", "U", "V", "W", "X", "Y", "Z">>

LowerLetters == <<"a", "b", "c", "d", "e", "f", "g", "h", "i", "j", "k", "l", "m",
                  "n", "o", "p", "q", "r", "s", "t", "u", "v", "w", "x", "y", "z">>

Digits == <<"0", "1", "2", "3", "4", "5", "6", "7", "8", "9">>

\* 1-based position of ch in the sequence alphabet, or 0
IndexIn(alphabet, ch) ==
    IF \E i \in 1..Len(alphabet) : alphabet[i] = ch
    THEN CHOOSE i \in 1..Len(alphabet) : alphabet[i] = ch
    ELSE 0

\* two non-ASCII letters, each one character: U+212A KELVIN SIGN and U+017F LATIN
\* SMALL LETTER LONG S
KelvinSign == "U+212A"
LongS == "U+017F"

LowerChar(ch) ==
    IF IndexIn(UpperLetters, ch) # 0 THEN LowerLetters[IndexIn(UpperLetters, ch)]
    ELSE IF ch = KelvinSign THEN "k"
    ELSE ch

\* str.lower()
StrLower(s) == [i \in 1..Len(s) |-> LowerChar(s[i])]

\* str.replace(old, new) for one-character old and new
StrReplace(s, old, new) == [i \in 1..Len(s) |-> IF s[i] = old THEN new ELSE s[i]]


\* str.upper() / str.lower() of one character
UpperChar(ch) ==
    IF IndexIn(LowerLetters, ch) # 0 THEN UpperLetters[IndexIn(LowerLetters, ch)]
    ELSE IF ch = LongS THEN "S"
    ELSE ch

\* the letter a character stands for under re.IGNORECASE
FoldChar(ch) == IF ch = LongS THEN "s" ELSE LowerChar(ch)

\* a literal of a pattern compiled with re.IGNORECASE matches all of s
MatchesIgnoreCase(s, literal) ==
    Len(s) = Len(literal) /\ \A i \in 1..Len(s) : FoldChar(s[i]) = FoldChar(literal[i])

StrUpper(s) == [i \in 1..Len(s) |-> UpperChar(s[i])]

IsDigit(ch) == IndexIn(Digits, ch) # 0

IsLetter(ch) == IndexIn(UpperLetters, ch) # 0 \/ IndexIn(LowerLetters, ch) # 0

AllChars(s, P(_)) == \A i \in 1..Len(s) : P(s[i])

\* the part of s from position i (1-based) to the end
From(s, i) == SubSeq(s, i, Len(s))

\* length of the longest prefix of digits
DigitPrefixLen(s) ==
    IF AllChars(s, IsDigit) THEN Len(s)
    ELSE CHOOSE k \in 0..(Len(s) - 1) :
             (\A i \in 1..k : IsDigit(s[i])) /\ ~IsDigit(s[k + 1])

RECURSIVE ParseNat(_)
\* the number a string of decimal digits denotes
ParseNat(s) ==
    IF s = <<>> THEN 0
    ELSE 10 * ParseNat(SubSeq(s, 1, Len(s) - 1)) + (IndexIn(Digits, s[Len(s)]) - 1)

RECURSIVE NatToStr(_)
NatToStr(n) == IF n < 10 THEN <<Digits[n + 1]>> ELSE NatToStr(n \div 10) \o <<Digits[(n % 10) + 1]>>

RECURSIVE Pow10(_)
Pow10(k) == IF k = 0 THEN 1 ELSE 10 * Pow10(k - 1)

\* str.strip() of blanks and newlines
RECURSIVE StrStrip(_)
StrStrip(s) ==
    IF s # <<>> /\ Head(s) \in {" ", "\n"} THEN StrStrip(Tail(s))
    ELSE IF s # <<>> /\ s[Len(s)] \in {" ", "\n"} THEN StrStrip(SubSeq(s, 1, Len(s) - 1))
    ELSE s

\* a pattern anchored with ^...$ and used with re.match: "$" also matches before
\* one trailing newline
MatchToEnd(P(_), s) ==
    \/ P(s)
    \/ s # <<>> /\ s[Len(s)] = "\n" /\ P(SubSeq(s, 1, Len(s) - 1))

\* the text "$" leaves to the pattern
BeforeEnd(P(_), s) == IF P(s) THEN s ELSE SubSeq(s, 1, Len(s) - 1)

-----------------------------------------------------------------------------
(* Python values.  t is the type; an int or bool holds n (True is 1); a   *)
(* float holds n / 10^d, or s = "nan" / "inf" (n its sign); a str holds s; *)
(* "bigint" is an int beyond the range of a float: n = 1 is 10**400, n = 2  *)
(* is 10**5000, which has more digits than str() converts; "list" is [].   *)

PyNone == [t |-> "NoneType", n |-> 0, d |-> 0, s |-> <<>>]
PyInt(n) == [t |-> "int", n |-> n, d |-> 0, s |-> <<>>]
PyBool(b) == [t |-> "bool", n |-> IF b THEN 1 ELSE 0, d |-> 0, s |-> <<>>]
PyStr(s) == [t |-> "str", n |-> 0, d |-> 0, s |-> s]
PyBigInt == [t |-> "bigint", n |-> 1, d |-> 0, s |-> <<>>]
PyHugeInt == [t |-> "bigint", n |-> 2, d |-> 0, s |-> <<>>]
PyList == [t |-> "list", n |-> 0, d |-> 0, s |-> <<>>]
PyNan == [t |-> "float", n |-> 0, d |-> 0, s |-> <<"n", "a", "n">>]
PyInf(sign) == [t |-> "float", n |-> sign, d |-> 0, s |-> <<"i", "n", "f">>]

RECURSIVE PyFloat(_, _)
\* the float n / 10^d, in lowest terms of ten
PyFloat(n, d) ==
    IF d > 0 /\ n % 10 = 0 THEN PyFloat(n \div 10, d - 1)
    ELSE [t |-> "float", n |-> n, d |-> d, s |-> <<>>]

\* isinstance(v, int): bool is a subclass of int
IsInstanceInt(v) == v.t \in {"int", "bool", "bigint"}

IsInstanceFloat(v) == v.t = "float"

IsFiniteFloat(v) == v.t = "float" /\ v.s = <<>>

\* a conversion's result: a value, or the exception it raises
Returns(v) == [exc |-> "None", val |-> v]
RaisesExc(e) == [exc |-> e, val |-> PyNone]

\* underscores of a numeric literal stand only between two digits
SeparatorsOk(b) ==
    \A i \in 1..Len(b) :
        b[i] = "_" => i > 1 /\ i < Len(b) /\ IsDigit(b[i - 1]) /\ IsDigit(b[i + 1])

NotSeparator(ch) == ch # "_"

Unsigned(s) == IF s # <<>> /\ Head(s) \in {"+", "-"} THEN Tail(s) ELSE s

\* [sign]digits (after strip)
IsIntLiteral(s) ==
    /\ Unsigned(s) # <<>>
    /\ SeparatorsOk(Unsigned(s))
    /\ AllChars(SelectSeq(Unsigned(s), NotSeparator), IsDigit)

IntLiteralValue(s) ==
    LET mag == ParseNat(SelectSeq(Unsigned(s), NotSeparator))
    IN IF Head(s) = "-" THEN 0 - mag ELSE mag

\* digits[.digits] | .digits | digits.
IsPointLiteral(b) ==
    LET n1 == DigitPrefixLen(b)
        rest == From(b, n1 + 1)
    IN \/ n1 > 0 /\ rest = <<>>
       \/ /\ rest # <<>> /\ Head(rest) = "."
          /\ AllChars(Tail(rest), IsDigit)
          /\ n1 + Len(Tail(rest)) > 0

\* position of the exponent marker, or 0
ExponentAt(b) == IndexIn(StrLower(b), "e")

Mantissa(b) == IF ExponentAt(b) = 0 THEN b ELSE SubSeq(b, 1, ExponentAt(b) - 1)

\* an unsigned decimal literal: a point literal and an optional exponent
IsDecimalBody(b) ==
    /\ SeparatorsOk(b)
    /\ IsPointLiteral(SelectSeq(Mantissa(b), NotSeparator))
    /\ ExponentAt(b) # 0 => IsIntLiteral(From(b, ExponentAt(b) + 1))

DecimalBodyValue(b) ==
    LET m == SelectSeq(Mantissa(b), NotSeparator)
        n1 == DigitPrefixLen(m)
        frac == IF n1 < Len(m) THEN From(m, n1 + 2) ELSE <<>>
        digits == ParseNat(SubSeq(m, 1, n1) \o frac)
        exp == IF ExponentAt(b) = 0 THEN 0 ELSE IntLiteralValue(From(b, ExponentAt(b) + 1))
    IN IF exp >= Len(frac) THEN PyFloat(digits * Pow10(exp - Len(frac)), 0)
       ELSE PyFloat(digits, Len(frac) - exp)

\* float(str)
FloatOfStr(str) ==
    LET s == StrStrip(str)
        neg == s # <<>> /\ Head(s) = "-"
        body == Unsigned(s)
        low == StrLower(body)
    IN IF low = <<"n", "a", "n">> THEN Returns(PyNan)
       ELSE IF low \in {<<"i", "n", "f">>, <<"i", "n", "f", "i", "n", "i", "t", "y">>}
            THEN Returns(PyInf(IF neg THEN 0 - 1 ELSE 1))
       ELSE IF IsDecimalBody(body)
            THEN LET v == DecimalBodyValue(body)
                 IN Returns(IF neg THEN [v EXCEPT !.n = 0 - @] ELSE v)
       ELSE RaisesExc("ValueError")

\* int(value)
PyIntOf(v) ==
    CASE v.t \in {"int", "bigint"} -> Returns(v)
      [] v.t = "bool" -> Returns(PyInt(v.n))
      [] v.t = "float" ->
            IF v.s = <<"n", "a", "n">> THEN RaisesExc("ValueError")
            ELSE IF v.s # <<>> THEN RaisesExc("OverflowError")
            ELSE Returns(PyInt(IF v.n >= 0 THEN v.n \div Pow10(v.d)
                               ELSE 0 - ((0 - v.n) \div Pow10(v.d))))
      [] v.t = "str" ->
            IF IsIntLiteral(StrStrip(v.s)) THEN Returns(PyInt(IntLiteralValue(StrStrip(v.s))))
            ELSE RaisesExc("ValueError")
      [] OTHER -> RaisesExc("TypeError")

\* float(value)
PyFloatOf(v) ==
    CASE v.t \in {"int", "bool"} -> Returns(PyFloat(v.n, 0))
      [] v.t = "bigint" -> RaisesExc("OverflowError")
      [] v.t = "float" -> Returns(v)
      [] v.t = "str" -> FloatOfStr(v.s)
      [] OTHER -> RaisesExc("TypeError")

\* bool(value)
PyTruth(v) ==
    CASE v.t \in {"int", "bool", "bigint"} -> v.n # 0
      [] v.t = "float" -> v.s # <<>> \/ v.n # 0
      [] v.t = "str" -> v.s # <<>>
      [] OTHER -> FALSE

\* str(value)
\* str(v) raises ValueError beyond sys.get_int_max_str_digits() = 4300 digits
StrRaises(v) == v = PyHugeInt

PyStrOf(v) ==
    CASE v.t = "str" -> v.s
      [] v.t = "int" -> IF v.n < 0 THEN <<"-">> \o NatToStr(0 - v.n) ELSE NatToStr(v.n)
      [] v.t = "bool" -> IF v.n = 1 THEN <<"T", "r", "u", "e">> ELSE <<"F", "a", "l", "s", "e">>
      [] v.t = "bigint" -> <<"1">> \o [i \in 1..400 |-> "0"]
      [] v.t = "float" ->
            IF v.s # <<>> THEN (IF v.n < 0 THEN <<"-">> ELSE <<>>) \o v.s
            ELSE LET mag == IF v.n < 0 THEN 0 - v.n ELSE v.n
                     whole == NatToStr(mag \div Pow10(v.d))
                     fr == NatToStr(mag % Pow10(v.d))
                     frac == IF v.d = 0 THEN <<"0">>
                             ELSE [i \in 1..(v.d - Len(fr)) |-> "0"] \o fr
                 IN (IF v.n < 0 THEN <<"-">> ELSE <<>>) \o whole \o <<".">> \o frac
      [] v.t = "NoneType" -> <<"N", "o", "n", "e">>
      [] OTHER -> <<"[", "]">>

-----------------------------------------------------------------------------
(* ConfigValidator (utils/validation.py).  A validation returns            *)
(* (True, None), (False, message), or raises.                              *)

Valid == [valid |-> TRUE, exc |-> "None"]
Invalid == [valid |-> FALSE, exc |-> "None"]
ValidatorRaises(e) == [valid |-> FALSE, exc |-> e]

Accepts(r) == r.valid /\ r.exc = "None"

DataTypes ==
    {"identifier", "pin", "i2c_address", "frequency", "time", "percentage",
     "ip_address", "int", "float", "bool", "string", "lambda"}

\* [a-zA-Z][a-zA-Z0-9_]*
IdentifierBody(s) ==
    /\ s # <<>> /\ IsLetter(Head(s))
    /\ \A i \in 1..Len(s) : IsLetter(s[i]) \/ IsDigit(s[i]) \/ s[i] = "_"

ReservedKeywords ==
    {<<"t", "r", "u", "e">>, <<"f", "a", "l", "s", "e">>, <<"n", "u", "l", "l">>,
     <<"y", "e", "s">>, <<"n", "o">>, <<"o", "n">>, <<"o", "f", "f">>,
     <<"e", "s", "p", "h", "o", "m", "e">>, <<"w", "i", "f", "i">>, <<"a", "p", "i">>,
     <<"o", "t", "a">>, <<"l", "o", "g", "g", "e", "r">>,
     <<"w", "e", "b", "_", "s", "e", "r", "v", "e", "r">>}

validate_identifier(value) ==
    IF value = <<>> THEN Invalid
    ELSE IF ~MatchToEnd(IdentifierBody, value) THEN Invalid
    ELSE IF Len(value) > 63 THEN Invalid
    ELSE IF StrLower(value) \in ReservedKeywords THEN Invalid
    ELSE Valid

HasGpioPrefix(s) ==
    Len(s) >= 4 /\ MatchesIgnoreCase(SubSeq(s, 1, 4), <<"G", "P", "I", "O">>)

\* group 2 of (GPIO)?(\d+)
PinDigits(s) == IF HasGpioPrefix(s) THEN From(s, 5) ELSE s

\* (GPIO)?(\d+), ignoring case
PinBody(s) == PinDigits(s) # <<>> /\ AllChars(PinDigits(s), IsDigit)

\* one allow-list for every platform
ValidPinsAnyPlatform(platform) == 0..49

ValidPins(platform) ==
    IF StrUpper(platform) = <<"E", "S", "P", "3", "2">> THEN (0..39) \ {6, 7, 8, 9, 10, 11}
    ELSE IF StrUpper(platform) = <<"E", "S", "P", "8", "2", "6", "6">>
         THEN {0, 1, 2, 3, 4, 5, 12, 13, 14, 15, 16}
    ELSE 0..49

\* platform is the value handed in; platform.upper() needs a str
validate_pin_number(value, platform) ==
    IF value.t = "str" /\ ~MatchToEnd(PinBody, value.s) THEN Invalid
    ELSE IF value.t # "str" /\ ~IsInstanceInt(value) THEN Invalid
    ELSE IF platform.t # "str" THEN ValidatorRaises("AttributeError")
    ELSE IF value.t = "str"
    THEN IF ParseNat(PinDigits(BeforeEnd(PinBody, value.s))) \in ValidPins(platform.s)
         THEN Valid ELSE Invalid
    ELSE IF value.t # "bigint" /\ value.n \in ValidPins(platform.s) THEN Valid ELSE Invalid

HexDigits ==
    <<"0", "1", "2", "3", "4", "5", "6", "7", "8", "9", "a", "b", "c", "d", "e", "f">>

IsHexDigit(ch) == IndexIn(HexDigits, LowerChar(ch)) # 0 /\ ch # KelvinSign

HexValue(ch) == IndexIn(HexDigits, LowerChar(ch)) - 1

\* 0x[0-9A-Fa-f]{2}
I2cBody(s) ==
    Len(s) = 4 /\ s[1] = "0" /\ s[2] = "x" /\ IsHexDigit(s[3]) /\ IsHexDigit(s[4])

ReservedAddresses == (0..7) \cup (120..127)

validate_i2c_address(value) ==
    IF value.t = "str"
    THEN IF ~MatchToEnd(I2cBody, value.s) THEN Invalid
         ELSE IF 16 * HexValue(value.s[3]) + HexValue(value.s[4]) \in ReservedAddresses
              THEN Invalid ELSE Valid
    ELSE IF IsInstanceInt(value)
         THEN IF value.t = "bigint" \/ ~(0 <= value.n /\ value.n <= 255) THEN Invalid
              ELSE IF value.n \in ReservedAddresses THEN Invalid ELSE Valid
    ELSE Invalid

\* the parts of a text that starts like \d+(\.\d+)?: the integer digits, the
\* fraction digits (without the point) and what follows the number
QuantityParts(s) ==
    LET n1 == DigitPrefixLen(s)
        after == From(s, n1 + 1)
        n2 == IF after # <<>> /\ Head(after) = "." THEN DigitPrefixLen(Tail(after)) ELSE 0
    IN [int |-> SubSeq(s, 1, n1),
        frac |-> IF n2 > 0 THEN SubSeq(after, 2, n2 + 1) ELSE <<>>,
        unit |-> IF n2 > 0 THEN From(after, n2 + 2) ELSE after]

\* \d+(\.\d+)?(u1|u2|...), ignoring case
QuantityBody(s, units) ==
    /\ QuantityParts(s).int # <<>>
    /\ \E u \in units : MatchesIgnoreCase(QuantityParts(s).unit, u)

\* (\d+(?:\.\d+)?)([A-Za-z]+), case-sensitive
NumberLettersBody(s) ==
    /\ QuantityParts(s).int # <<>>
    /\ QuantityParts(s).unit # <<>> /\ AllChars(QuantityParts(s).unit, IsLetter)

\* float(group 1) * multiplier <= 0
NotPositive(parts) == ParseNat(parts.int) = 0 /\ ParseNat(parts.frac) = 0

\* float(group 1) * multiplier > limit
Exceeds(parts, multiplier, limit) ==
    LET whole == ParseNat(parts.int)
        bound == limit \div multiplier
    IN IF limit % multiplier = 0
       THEN whole > bound \/ (whole = bound /\ ParseNat(parts.frac) > 0)
       ELSE whole > bound
            \/ /\ whole = bound
               /\ ParseNat(parts.frac) * multiplier
                      > (limit - bound * multiplier) * Pow10(Len(parts.frac))

\* the range check shared by validate_frequency and validate_time_duration
QuantityCheck(value, units, multipliers, limit) ==
    IF ~MatchToEnd(LAMBDA x : QuantityBody(x, units), value) THEN Invalid
    ELSE IF MatchToEnd(NumberLettersBody, value)
    THEN LET parts == QuantityParts(BeforeEnd(NumberLettersBody, value))
             unit == StrLower(parts.unit)
         IN IF unit \in DOMAIN multipliers
            THEN IF NotPositive(parts) THEN Invalid
                 ELSE IF Exceeds(parts, multipliers[unit], limit) THEN Invalid
                 ELSE Valid
            ELSE Invalid
    ELSE Valid

FrequencyUnits == {<<"H", "z">>, <<"K", "H", "z">>, <<"M", "H", "z">>}

FrequencyMultipliers ==
    (<<"h", "z">> :> 1) @@ (<<"k", "h", "z">> :> 1000) @@ (<<"m", "h", "z">> :> 1000000)

MaxFrequencyHz == 1000000000

validate_frequency(value) ==
    QuantityCheck(value, FrequencyUnits, FrequencyMultipliers, MaxFrequencyHz)

DurationUnits == {<<"m", "s">>, <<"s">>, <<"m", "i", "n">>, <<"h">>}

DurationMultipliers ==
    (<<"m", "s">> :> 1) @@ (<<"s">> :> 1000) @@ (<<"m", "i", "n">> :> 60000)
        @@ (<<"h">> :> 3600000)

MaxDurationMs == 86400000

validate_time_duration(value) ==
    QuantityCheck(value, DurationUnits, DurationMultipliers, MaxDurationMs)

\* 0 <= num_value <= 100
IsPercentage(f) == f.s = <<>> /\ 0 <= f.n /\ f.n <= 100 * Pow10(f.d)

\* a validator that takes text without the % sign as well
validate_percentage_bare(value) ==
    LET text == IF value.t = "str" /\ value.s # <<>> /\ value.s[Len(value.s)] = "%"
                THEN SubSeq(value.s, 1, Len(value.s) - 1) ELSE value.s
        num == IF value.t = "str" THEN FloatOfStr(text) ELSE PyFloatOf(value)
    IN IF ~(value.t = "str" \/ IsInstanceInt(value) \/ IsInstanceFloat(value)) THEN Invalid
       ELSE IF num.exc = "ValueError" THEN Invalid
       ELSE IF num.exc # "None" THEN ValidatorRaises(num.exc)
       ELSE IF IsPercentage(num.val) THEN Valid ELSE Invalid

validate_percentage(value) ==
    LET num == IF value.t = "str"
               THEN FloatOfStr(SubSeq(value.s, 1, Len(value.s) - 1))
               ELSE PyFloatOf(value)
    IN IF value.t = "str" /\ (value.s = <<>> \/ value.s[Len(value.s)] # "%") THEN Invalid
       ELSE IF value.t = "str" /\ num.exc = "ValueError" THEN Invalid
       ELSE IF ~(value.t = "str" \/ IsInstanceInt(value) \/ IsInstanceFloat(value)) THEN Invalid
       ELSE IF num.exc # "None" THEN ValidatorRaises(num.exc)
       ELSE IF IsPercentage(num.val) THEN Valid ELSE Invalid

RECURSIVE SplitDots(_)
\* str.split('.')
SplitDots(s) ==
    LET k == IndexIn(s, ".") IN
    IF k = 0 THEN <<s>> ELSE <<SubSeq(s, 1, k - 1)>> \o SplitDots(From(s, k + 1))

\* (\d{1,3}\.){3}\d{1,3}
IpBody(s) ==
    /\ Len(SplitDots(s)) = 4
    /\ \A i \in 1..4 : Len(SplitDots(s)[i]) \in 1..3 /\ AllChars(SplitDots(s)[i], IsDigit)

validate_ip_address(value) ==
    IF ~MatchToEnd(IpBody, value) THEN Invalid
    ELSE IF \E i \in 1..4 : PyIntOf(PyStr(SplitDots(value)[i])).val.n > 255 THEN Invalid
    ELSE Valid

BoolWords ==
    {<<"t", "r", "u", "e">>, <<"f", "a", "l", "s", "e">>, <<"1">>, <<"0">>,
     <<"y", "e", "s">>, <<"n", "o">>, <<"o", "n">>, <<"o", "f", "f">>}

MaxStringLength == 1000

DefaultPlatform == PyStr(<<"E", "S", "P", "3", "2">>)

\* a context is a function from its keys to their values; {} has none
EmptyContext == [key \in {} |-> PyNone]

\* context.get(key, default)
ContextGet(context, key, default) == IF key \in DOMAIN context THEN context[key] ELSE default

validate_by_type(value, data_type, context) ==
    IF value = PyNone THEN Valid
    ELSE IF StrRaises(value) THEN ValidatorRaises("ValueError")
    ELSE CASE data_type = "identifier" -> validate_identifier(PyStrOf(value))
           [] data_type = "pin" ->
                 validate_pin_number(value, ContextGet(context, "platform", DefaultPlatform))
           [] data_type = "i2c_address" -> validate_i2c_address(value)
           [] data_type = "frequency" -> validate_frequency(PyStrOf(value))
           [] data_type = "time" -> validate_time_duration(PyStrOf(value))
           [] data_type = "percentage" -> validate_percentage(value)
           [] data_type = "ip_address" -> validate_ip_address(PyStrOf(value))
           [] data_type = "int" ->
                 IF PyIntOf(value).exc = "None" THEN Valid
                 ELSE IF PyIntOf(value).exc \in {"ValueError", "TypeError"} THEN Invalid
                 ELSE ValidatorRaises(PyIntOf(value).exc)
           [] data_type = "float" ->
                 IF PyFloatOf(value).exc = "None" THEN Valid
                 ELSE IF PyFloatOf(value).exc \in {"ValueError", "TypeError"} THEN Invalid
                 ELSE ValidatorRaises(PyFloatOf(value).exc)
           [] data_type = "bool" ->
                 IF value.t = "bool" THEN Valid
                 ELSE IF value.t = "str" /\ StrLower(value.s) \in BoolWords THEN Valid
                 ELSE Invalid
           [] data_type = "string" ->
                 IF Len(PyStrOf(value)) > MaxStringLength THEN Invalid ELSE Valid
           [] OTHER -> Valid

-----------------------------------------------------------------------------
(* Calls of validate_by_type.  The validator keeps no state between calls. *)

\* pins as numbers and as text
PinValues ==
    {PyInt(0 - 1), PyInt(0), PyInt(2), PyInt(5), PyInt(6), PyInt(12), PyInt(39), PyInt(40),
     PyInt(49), PyInt(50), PyStr(<<"G", "P", "I", "O", "2">>),
     PyStr(<<"G", "P", "I", "O", "5">>), PyStr(<<"G", "P", "I", "O", "6">>),
     PyStr(<<"G", "P", "I", "O", "3", "9">>), PyStr(<<"G", "P", "I", "O", "4", "0">>),
     PyStr(<<"G", "P", "I", "O", "4", "9">>), PyStr(<<"G", "P", "I", "O", "5", "0">>),
     PyStr(<<"2">>), PyStr(<<"6">>), PyStr(<<"4", "0">>),
     PyStr(<<"g", "p", "i", "o", "2">>), PyStr(<<"G", "P", "I", "O", "2", "\n">>),
     PyStr(<<"G", "P", "I", "O">>), PyStr(<<"G", "2">>)}

\* I2C addresses as numbers and as text
I2cValues ==
    {PyInt(7), PyInt(8), PyInt(72), PyInt(119), PyInt(120), PyInt(127), PyInt(128),
     PyInt(255), PyInt(256), PyStr(<<"0", "x", "0", "0">>), PyStr(<<"0", "x", "0", "7">>),
     PyStr(<<"0", "x", "0", "8">>), PyStr(<<"0", "x", "4", "8">>),
     PyStr(<<"0", "x", "7", "7">>), PyStr(<<"0", "x", "7", "8">>),
     PyStr(<<"0", "x", "7", "F">>), PyStr(<<"0", "x", "8", "0">>),
     PyStr(<<"0", "x", "f", "f">>), PyStr(<<"0", "X", "4", "8">>), PyStr(<<"0", "x", "4">>),
     PyStr(<<"0", "x", "4", "8", "\n">>), PyStr(<<"4", "8">>)}

\* frequencies; KelvinSign is the letter-like sign U+212A
FrequencyValues ==
    {PyStr(<<"4", "3", "3", "M", "H", "z">>), PyStr(<<"1", "5", "0", "0", "M", "H", "z">>),
     PyStr(<<"1", "0", "0", "0", "M", "H", "z">>),
     PyStr(<<"1", "0", "0", "0", ".", "1", "M", "H", "z">>), PyStr(<<"0", "H", "z">>),
     PyStr(<<"0", ".", "0", "H", "z">>), PyStr(<<"5", "H", "z">>),
     PyStr(<<"5", "k", "h", "z">>), PyStr(<<"2", ".", "5", "K", "H", "z">>),
     PyStr(<<"2", "0", "0", "0", "0", "0", "0", "k", "H", "z">>),
     PyStr(<<"5", KelvinSign, "H", "z">>),
     PyStr(<<"2", "0", "0", "0", "0", "0", "0", KelvinSign, "H", "z">>),
     PyStr(<<"5", "H", "z", "\n">>), PyStr(<<"5", "G", "H", "z">>), PyStr(<<"5">>),
     PyStr(<<"H", "z">>), PyStr(<<"5", " ", "H", "z">>)}

\* percentages as numbers and as text
PercentageValues ==
    {PyInt(50), PyInt(100), PyInt(101), PyFloat(505, 1), PyFloat(1005, 1),
     PyFloat(0 - 1, 1), PyNan, PyInf(1), PyStr(<<"5", "0", "%">>), PyStr(<<"0", "%">>),
     PyStr(<<"1", "0", "0", "%">>), PyStr(<<"1", "0", "0", ".", "5", "%">>),
     PyStr(<<"1", "0", "1", "%">>), PyStr(<<"5", "0">>), PyStr(<<"5", "0", ".", "5">>),
     PyStr(<<"1", "e", "2", "%">>), PyStr(<<"n", "a", "n", "%">>),
     PyStr(<<"a", "b", "c", "%">>), PyStr(<<"%">>), PyStr(<<"-", "1", "%">>)}

\* None, booleans, ints beyond a float and beyond str(), a list, other text
OtherValues ==
    {PyNone, PyBool(TRUE), PyBool(FALSE), PyBigInt, PyHugeInt, PyList, PyStr(<<>>),
     PyStr(<<"a", "b", "c">>), PyStr(<<"o", "n">>),
     PyStr(<<"1", ".", "2", ".", "3", ".", "4">>), PyStr(<<"3", "0", "s">>)}

ValidateValues == PinValues \cup I2cValues \cup FrequencyValues \cup PercentageValues \cup OtherValues

\* the platform entry of a context: names in both cases, an unknown name, and
\* entries that are no string
ContextPlatforms ==
    {PyStr(<<"E", "S", "P", "3", "2">>), PyStr(<<"E", "S", "P", "8", "2", "6", "6">>),
     PyStr(<<"e", "s", "p", "8", "2", "6", "6">>), PyStr(<<"R", "P", "2", "0", "4", "0">>),
     PyInt(3), PyNone}

\* context = None stands for {}
Contexts == {EmptyContext} \cup {[key \in {"platform"} |-> p] : p \in ContextPlatforms}

NoValidateCall ==
    [made |-> FALSE, value |-> PyNone, data_type |-> "", context |-> EmptyContext,
     result |-> Valid]

\* validate_by_type(value, data_type, context)
ValidateByType ==
    /\ ~validate_call.made
    /\ \E value \in ValidateValues, data_type \in DataTypes, context \in Contexts :
           validate_call' = [made |-> TRUE, value |-> value, data_type |-> data_type,
                             context |-> context,
                             result |-> validate_by_type(value, data_type, context)]

ValidateInit == validate_call = NoValidateCall

-----------------------------------------------------------------------------
(* The component store: DatabaseManager (database.py).  SQLite makes the   *)
(* statements of one connection's open transaction visible to the other    *)
(* connections at its commit, and runs every statement atomically.  The    *)
(* writer is the crawler's thread, the reader is the GUI thread.           *)

StoreNames == {<<"d", "h", "t">>, <<"D", "H", "T">>}

StoreTypes == {<<"s", "e", "n", "s", "o", "r">>, <<"s", "w", "i", "t", "c", "h">>}

\* the components save_component is called with; config_vars by name
StoreComponents == [name : StoreNames, component_type : StoreTypes,
                    description : {"d1", "d2"}, config_vars : SUBSET {"pin", "model"}]

\* _generate_component_key
GenerateComponentKey(c) ==
    c.component_type \o <<".">> \o StrReplace(StrReplace(StrLower(c.name), " ", "_"), ".", "_")

StoreKeys == {GenerateComponentKey(c) : c \in StoreComponents}

NoRow == [name |-> <<>>, component_type |-> <<>>, description |-> "none"]

RowOf(c) == [name |-> c.name, component_type |-> c.component_type,
             description |-> c.description]

EmptyDb == [components |-> [k \in StoreKeys |-> NoRow],
            config_variables |-> [k \in StoreKeys |-> {}]]

WriterIdle == [pc |-> "idle", comp |-> NoRow, key |-> <<>>, view |-> EmptyDb,
               result |-> "none"]

ReaderIdle == [pc |-> "idle", op |-> "none", todo |-> <<>>, row |-> NoRow,
               results |-> <<>>]

\* the component a load of key k builds from one state of the database (None: NoRow)
ComponentAt(d, k) ==
    IF d.components[k] = NoRow THEN NoRow
    ELSE [name |-> d.components[k].name,
          component_type |-> d.components[k].component_type,
          description |-> d.components[k].description,
          config_vars |-> d.config_variables[k]]

\* the keys in the order of "ORDER BY component_type, name"
KeyOrder == CHOOSE s \in [1..Cardinality(StoreKeys) -> StoreKeys] : Range(s) = StoreKeys

\* save_component, lines 105-118: the transaction begins with INSERT OR REPLACE
SaveInsertRow ==
    /\ wconn.pc = "idle"
    /\ dbCalls < MaxDbCalls
    /\ \E c \in StoreComponents :
         LET key == GenerateComponentKey(c) IN
         wconn' = [pc |-> "row_written", comp |-> c, key |-> key,
                   view |-> [db EXCEPT !.components[key] = RowOf(c)],
                   result |-> "none"]
    /\ dbCalls' = dbCalls + 1
    /\ UNCHANGED <<db, rconn, committedSeen>>

\* lines 120-130: DELETE of the old variable rows, INSERT of the new ones
SaveReplaceVariables ==
    /\ wconn.pc = "row_written"
    /\ wconn' = [wconn EXCEPT !.pc = "vars_written",
                              !.view.config_variables[wconn.key] = wconn.comp.config_vars]
    /\ UNCHANGED <<db, rconn, dbCalls, committedSeen>>

\* lines 132-134: commit; the transaction's writes become the committed database
SaveCommit ==
    /\ wconn.pc = "vars_written"
    /\ db' = wconn.view
    /\ wconn' = [WriterIdle EXCEPT !.result = "True"]
    /\ committedSeen' = IF rconn.pc \in {"select_row", "select_vars"}
                        THEN [committedSeen EXCEPT ![wconn.key] =
                                 @ \cup {ComponentAt(wconn.view, wconn.key)}]
                        ELSE committedSeen
    /\ UNCHANGED <<rconn, dbCalls>>

\* lines 136-138: sqlite3.Error in a statement or in the commit; the connection's
\* context manager rolls the transaction back
SaveError ==
    /\ wconn.pc \in {"row_written", "vars_written"}
    /\ wconn' = [WriterIdle EXCEPT !.result = "False"]
    /\ UNCHANGED <<db, rconn, dbCalls, committedSeen>>

\* load_component is called with a key
LoadComponent ==
    /\ rconn.pc \in {"idle", "done"}
    /\ dbCalls < MaxDbCalls
    /\ \E key \in StoreKeys :
         rconn' = [ReaderIdle EXCEPT !.pc = "select_row", !.op = "load", !.todo = <<key>>]
    /\ committedSeen' = [k \in StoreKeys |-> {ComponentAt(db, k)}]
    /\ dbCalls' = dbCalls + 1
    /\ UNCHANGED <<db, wconn>>

\* search_components, lines 231-246: the keys of the rows that match the query
\* (the query is matched against the description; the empty query matches all)
SearchComponents ==
    /\ rconn.pc \in {"idle", "done"}
    /\ dbCalls < MaxDbCalls
    /\ \E query \in {"", "d1"} :
         LET hit(k) == /\ db.components[k] # NoRow
                       /\ query = "" \/ db.components[k].description = query
             keys == SelectSeq(KeyOrder, hit)
         IN rconn' = [ReaderIdle EXCEPT !.pc = IF keys = <<>> THEN "done" ELSE "select_row",
                                        !.op = "search", !.todo = keys]
    /\ committedSeen' = [k \in StoreKeys |-> {ComponentAt(db, k)}]
    /\ dbCalls' = dbCalls + 1
    /\ UNCHANGED <<db, wconn>>

\* load_component, lines 147-156: SELECT of the component row
LoadSelectRow ==
    /\ rconn.pc = "select_row"
    /\ LET key == Head(rconn.todo)
           row == db.components[key]
       IN IF row = NoRow
          THEN rconn' = [rconn EXCEPT !.todo = Tail(@),
                                      !.pc = IF Tail(rconn.todo) = <<>> THEN "done"
                                             ELSE "select_row",
                                      !.results = IF rconn.op = "load"
                                                  THEN Append(@, <<key, NoRow>>) ELSE @]
          ELSE rconn' = [rconn EXCEPT !.row = row, !.pc = "select_vars"]
    /\ UNCHANGED <<db, wconn, dbCalls, committedSeen>>

\* load_component, lines 159-178: SELECT of the variable rows, in a statement of its own
LoadSelectVariables ==
    /\ rconn.pc = "select_vars"
    /\ LET key == Head(rconn.todo)
           component == [name |-> rconn.row.name,
                         component_type |-> rconn.row.component_type,
                         description |-> rconn.row.description,
                         config_vars |-> db.config_variables[key]]
       IN rconn' = [rconn EXCEPT !.todo = Tail(@), !.row = NoRow,
                                 !.pc = IF Tail(rconn.todo) = <<>> THEN "done"
                                        ELSE "select_row",
                                 !.results = Append(@, <<key, component>>)]
    /\ UNCHANGED <<db, wconn, dbCalls, committedSeen>>

StoreInit ==
    /\ db = EmptyDb
    /\ wconn = WriterIdle
    /\ rconn = ReaderIdle
    /\ dbCalls = 0
    /\ committedSeen = [k \in StoreKeys |-> {}]

\* C5 (as claimed): every component a load or a search returns is, complete, one
\* that was the committed component of its key at some moment of the read: the
\* old one, or one a concurrent save committed; never a row of one with the
\* variables of another.
C5_NoTornRead ==
    rconn.pc = "done" =>
        \A j \in 1..Len(rconn.results) :
            rconn.results[j][2] \in committedSeen[rconn.results[j][1]]

\* two components are the same catalog component when they agree on component_type
\* and name
SameComponent(r1, r2) == r1.name = r2.name /\ r1.component_type = r2.component_type

\* C22: the key is unique per component, so a commit never replaces the stored row
\* of a key by the row of a component with another component_type or name.
C22_SaveReplacesOnlySameComponent ==
    [][\A k \in StoreKeys :
           (db.components[k] # NoRow /\ db'.components[k] # db.components[k])
               => SameComponent(db'.components[k], db.components[k])]_storeVars

-----------------------------------------------------------------------------
(* ConfigVariable (models/config_variable.py) *)

\* ConfigVariable.__init__
ConfigVariable(name, description, data_type, is_required, default_value) ==
    [name |-> name, description |-> description, data_type |-> data_type,
     is_required |-> is_required, default_value |-> default_value,
     current_value |-> PyNone]

TrueWords == {<<"t", "r", "u", "e">>, <<"1">>, <<"y", "e", "s">>, <<"o", "n">>}

\* set_value's type coercion left out: every value is stored as given
CoerceNothing(data_type, value) == Returns(value)

\* the "basic type validation" of set_value: the value to store, or the exception
\* the conversion raises
Coerce(data_type, value) ==
    IF value = PyNone THEN Returns(value)
    ELSE IF data_type = "int" /\ ~IsInstanceInt(value) THEN PyIntOf(value)
    ELSE IF data_type = "float" /\ ~(IsInstanceInt(value) \/ IsInstanceFloat(value))
         THEN PyFloatOf(value)
    ELSE IF data_type = "bool" /\ value.t # "bool"
         THEN IF value.t = "str" THEN Returns(PyBool(StrLower(value.s) \in TrueWords))
              ELSE Returns(PyBool(PyTruth(value)))
    ELSE Returns(value)

\* a set_value that assigns current_value before it checks the value
set_value_assign_first(var, value) ==
    [var |-> [var EXCEPT !.current_value = value],
     result |-> ~(value = PyNone /\ var.is_required)
                    /\ Coerce(var.data_type, value).exc = "None"]

\* ConfigVariable.set_value: the variable afterwards and the value returned.  An
\* exception of the conversion ends in one of the two except clauses, which
\* both return False.
set_value(var, value) ==
    IF value = PyNone /\ var.is_required THEN [var |-> var, result |-> FALSE]
    ELSE IF Coerce(var.data_type, value).exc # "None" THEN [var |-> var, result |-> FALSE]
    ELSE [var |-> [var EXCEPT !.current_value = Coerce(var.data_type, value).val],
          result |-> TRUE]

get_effective_value(var) ==
    IF var.current_value # PyNone THEN var.current_value ELSE var.default_value

\* ConfigVariable.to_dict: the dict, as a record of its keys
var_to_dict(var) ==
    [name |-> var.name, description |-> var.description, data_type |-> var.data_type,
     is_required |-> var.is_required, default_value |-> var.default_value,
     current_value |-> var.current_value]

\* ConfigVariable.from_dict, of a dict that holds every key
var_from_dict(data) ==
    [ConfigVariable(data.name, data.description, data.data_type, data.is_required,
                    data.default_value)
        EXCEPT !.current_value = data.current_value]

NoConfigVariable == ConfigVariable("", "", "", FALSE, PyNone)

NoSetCall == [value |-> PyNone, result |-> FALSE, calls |-> 0]

\* the values handed to set_value
SetValues ==
    {PyNone, PyBool(TRUE), PyInt(0), PyInt(12), PyBigInt, PyFloat(15, 1), PyInf(1), PyList,
     PyStr(<<>>), PyStr(<<"1", "2">>), PyStr(<<"a", "b", "c">>), PyStr(<<"o", "n">>),
     PyStr(<<"1", ".", "5">>), PyStr(<<"G", "P", "I", "O", "6">>),
     PyStr(<<"G", "P", "I", "O", "2">>), PyStr(<<"0", "x", "4", "8">>),
     PyStr(<<"5", "0", "%">>), PyStr(<<"3", "0", "s">>),
     PyStr(<<"5", "H", "z">>), PyStr(<<"1", ".", "2", ".", "3", ".", "4">>)}

\* ConfigVariable(...): a variable of any data type, required or not
NewConfigVariable ==
    /\ config_var = NoConfigVariable
    /\ \E data_type \in DataTypes, is_required \in BOOLEAN :
           config_var' = ConfigVariable("value", "", data_type, is_required, PyNone)
    /\ UNCHANGED set_call

\* config_var.set_value(value)
SetValue ==
    /\ config_var # NoConfigVariable
    /\ \E value \in SetValues :
           /\ config_var' = set_value(config_var, value).var
           /\ set_call' = [value |-> value, result |-> set_value(config_var, value).result,
                           calls |-> 1]

VariableInit == config_var = NoConfigVariable /\ set_call = NoSetCall

-----------------------------------------------------------------------------
(* ESPHomeComponent (models/component.py).  An object is the record of its  *)
(* fields; platforms, url and the canvas geometry, which no operation here *)
(* reads, are left out.                                                     *)

MaxInstances == 2

\* str(uuid.uuid4()) of the k-th call: 36 characters, the values of one run
\* pairwise distinct (here already in their first group)
uuid4(k) ==
    [i \in 1..(8 - Len(NatToStr(k))) |-> "0"] \o NatToStr(k)
        \o <<"-", "0", "0", "0", "0", "-", "4", "0", "0", "0", "-", "8", "0", "0", "0", "-",
             "0", "0", "0", "0", "0", "0", "0", "0", "0", "0", "0", "0">>

\* ESPHomeComponent.__init__; instance_id is the uuid drawn at line 23
ESPHomeComponent(name, component_type, description, config_vars, uuid) ==
    [name |-> name, component_type |-> component_type, description |-> description,
     config_vars |-> config_vars, instance_id |-> uuid]

\* index of the first variable called name, 0 for None
get_config_var(component, name) ==
    IF \E j \in 1..Len(component.config_vars) : component.config_vars[j].name = name
    THEN CHOOSE j \in 1..Len(component.config_vars) :
             /\ component.config_vars[j].name = name
             /\ \A h \in 1..(j - 1) : component.config_vars[h].name # name
    ELSE 0

\* ESPHomeComponent.set_config_value: the component afterwards and the value returned
set_config_value(component, var_name, value) ==
    LET j == get_config_var(component, var_name) IN
    IF j # 0
    THEN LET set == set_value(component.config_vars[j], value)
         IN [component |-> [component EXCEPT !.config_vars[j] = set.var],
             result |-> set.result]
    ELSE [component |-> component, result |-> FALSE]

\* ESPHomeComponent.to_dict
to_dict(component) ==
    [name |-> component.name, component_type |-> component.component_type,
     description |-> component.description,
     config_vars |-> [j \in 1..Len(component.config_vars) |->
                          var_to_dict(component.config_vars[j])],
     instance_id |-> component.instance_id]

\* ESPHomeComponent.from_dict, of a dict that holds every key; drawn is the number
\* of uuids drawn before the call.  The constructor draws one, the default of
\* data.get('instance_id', ...) another; the dict's own instance_id is the one kept.
from_dict(data, drawn) ==
    [ESPHomeComponent(data.name, data.component_type, data.description,
                      [j \in 1..Len(data.config_vars) |-> var_from_dict(data.config_vars[j])],
                      uuid4(drawn + 1))
        EXCEPT !.instance_id = data.instance_id]

\* a clone that keeps the instance_id of its source
clone_same_id(component, drawn) == from_dict(to_dict(component), drawn + 1)

\* ESPHomeComponent.clone; drawn is the number of uuids drawn before the call
clone(component, drawn) ==
    from_dict([to_dict(component) EXCEPT !.instance_id = uuid4(drawn + 1)], drawn + 1)

\* uuid.uuid4() calls of one clone(): lines 141, 23 and 130
UuidsPerClone == 3

\* the components the program constructs: a name, a type and declared variables
ComponentClasses ==
    {[name |-> <<"d", "h", "t">>, component_type |-> <<"s", "e", "n", "s", "o", "r">>,
      config_vars |-> <<ConfigVariable("pin", "", "pin", TRUE, PyNone),
                        ConfigVariable("count", "", "int", FALSE, PyInt(3))>>],
     [name |-> <<"g", "p", "i", "o">>, component_type |-> <<"s", "w", "i", "t", "c", "h">>,
      config_vars |-> <<ConfigVariable("rate", "", "float", TRUE, PyNone)>>]}

VarNames == {"pin", "count", "rate", "missing"}

\* the values handed to set_config_value
ConfigValues == {PyNone, PyInt(5), PyStr(<<"a", "b", "c">>)}

NoCall ==
    [op |-> "none", target |-> 0, source |-> 0, var_name |-> "", value |-> PyNone,
     result |-> FALSE]

\* ESPHomeComponent(...), then add_config_var for each declared variable
NewComponent ==
    /\ Len(instances) < MaxInstances
    /\ \E c \in ComponentClasses :
           instances' = Append(instances,
                               ESPHomeComponent(c.name, c.component_type, "", c.config_vars,
                                                uuid4(uuids + 1)))
    /\ uuids' = uuids + 1
    /\ lastCall' = [NoCall EXCEPT !.op = "new", !.target = Len(instances) + 1]

\* instances[i].clone()
Clone ==
    /\ Len(instances) < MaxInstances
    /\ \E i \in 1..Len(instances) :
           /\ instances' = Append(instances, clone(instances[i], uuids))
           /\ lastCall' = [NoCall EXCEPT !.op = "clone", !.source = i,
                                         !.target = Len(instances) + 1]
    /\ uuids' = uuids + UuidsPerClone

\* instances[i].set_config_value(var_name, value)
SetConfigValue ==
    \E i \in 1..Len(instances), var_name \in VarNames, value \in ConfigValues :
        LET call == set_config_value(instances[i], var_name, value) IN
        /\ instances' = [instances EXCEPT ![i] = call.component]
        /\ lastCall' = [op |-> "set_config_value", target |-> i, source |-> 0,
                        var_name |-> var_name, value |-> value, result |-> call.result]
        /\ UNCHANGED uuids

InstanceInit == instances = <<>> /\ uuids = 0 /\ lastCall = NoCall

-----------------------------------------------------------------------------
(* Properties of ConfigVariable and ESPHomeComponent *)

\* C7: a set that returns False changes nothing: in every step in which
\* set_config_value (and, through it, set_value) returns False, also for a
\* variable name the component does not have, every variable of every
\* instance keeps its current_value.
C7_FailedSetKeepsValues ==
    [][(lastCall'.op = "set_config_value" /\ ~lastCall'.result) => instances' = instances]_instanceVars

\* a set of an int variable that already holds 5 has failed on "abc"
C7_Witness ==
    /\ lastCall.op = "set_config_value" /\ ~lastCall.result
    /\ lastCall.var_name = "count" /\ lastCall.value = PyStr(<<"a", "b", "c">>)
    /\ get_config_var(instances[lastCall.target], "count") # 0
    /\ instances[lastCall.target].config_vars[2].current_value = PyInt(5)

AcceptedByValidator(var) ==
    \/ var.current_value = PyNone
    \/ Accepts(validate_by_type(var.current_value, var.data_type, EmptyContext))

SameConfiguration(a, b) ==
    /\ a.name = b.name /\ a.component_type = b.component_type
    /\ Len(a.config_vars) = Len(b.config_vars)
    /\ \A j \in 1..Len(a.config_vars) :
           /\ a.config_vars[j].name = b.config_vars[j].name
           /\ a.config_vars[j].default_value = b.config_vars[j].default_value
           /\ a.config_vars[j].current_value = b.config_vars[j].current_value

\* C9: no two instances share an instance_id, and a clone just made has the
\* name, type and config variables (names, order, default and current values)
\* of the instance it was cloned from.
C9_UniqueIdsAndFaithfulClone ==
    /\ \A i, k \in 1..Len(instances) :
           instances[i].instance_id = instances[k].instance_id => i = k
    /\ lastCall.op = "clone" =>
           SameConfiguration(instances[lastCall.source], instances[lastCall.target])

\* an instance whose pin was set has just been cloned
C9_Witness ==
    /\ lastCall.op = "clone"
    /\ instances[lastCall.source].config_vars[1].current_value = PyInt(5)
    /\ instances[lastCall.target].config_vars[1].current_value = PyInt(5)
    /\ instances[lastCall.target].instance_id # instances[lastCall.source].instance_id

-----------------------------------------------------------------------------
(* YAMLGenerator (utils/yaml_generator.py).  The configuration is built as  *)
(* nested dicts and lists and handed to yaml.dump, which with              *)
(* sort_keys=False writes mapping keys in insertion order and list items   *)
(* in list order.  A node is a scalar, a list of nodes, or a dict: a       *)
(* sequence of (key, val) items in insertion order.                        *)

Scalar(v) == [kind |-> "scalar", items |-> <<>>, value |-> v]
List(items) == [kind |-> "list", items |-> items, value |-> PyNone]
Dict(items) == [kind |-> "dict", items |-> items, value |-> PyNone]
Item(key, val) == [key |-> key, val |-> val]

Text(s) == Scalar(PyStr(s))

\* position of key in the dict, 0 if absent
KeyIndex(d, key) ==
    IF \E i \in 1..Len(d.items) : d.items[i].key = key
    THEN CHOOSE i \in 1..Len(d.items) : d.items[i].key = key
    ELSE 0

\* key in d
HasKey(d, key) == KeyIndex(d, key) # 0

\* d[key]
DictGet(d, key) == d.items[KeyIndex(d, key)].val

\* d[key] = val: a new key goes last, an old key keeps its place
DictSet(d, key, val) ==
    IF HasKey(d, key) THEN [d EXCEPT !.items[KeyIndex(d, key)].val = val]
    ELSE [d EXCEPT !.items = Append(@, Item(key, val))]

DictKeys(d) == [i \in 1..Len(d.items) |-> d.items[i].key]

K_esphome == <<"e", "s", "p", "h", "o", "m", "e">>
K_wifi == <<"w", "i", "f", "i">>
K_logger == <<"l", "o", "g", "g", "e", "r">>
K_api == <<"a", "p", "i">>
K_ota == <<"o", "t", "a">>

Secret == <<"!", "s", "e", "c", "r", "e", "t", " ">>
Password == <<"_", "p", "a", "s", "s", "w", "o", "r", "d">>

\* the sections every configuration starts with
SeededConfig(device_name, platform, board) ==
    Dict(<<Item(K_esphome, Dict(<<Item("name", Text(device_name)),
                                  Item("platform", Text(platform)),
                                  Item("board", Text(board))>>)),
           Item(K_wifi, Dict(<<Item("ssid", Text(Secret \o K_wifi \o <<"_", "s", "s", "i", "d">>)),
                               Item("password", Text(Secret \o K_wifi \o Password))>>)),
           Item(K_logger, Dict(<<>>)),
           Item(K_api, Dict(<<Item("password", Text(Secret \o K_api \o Password))>>)),
           Item(K_ota, Dict(<<Item("password", Text(Secret \o K_ota \o Password))>>))>>)

PreSeeded == {K_esphome, K_wifi, K_logger, K_api, K_ota}

RECURSIVE SetVariablesUnfiltered(_, _)
\* a loop over config_vars that also writes the variables without a value
SetVariablesUnfiltered(config, config_vars) ==
    IF config_vars = <<>> THEN config
    ELSE SetVariablesUnfiltered(DictSet(config, Head(config_vars).name,
                                        Scalar(get_effective_value(Head(config_vars)))),
                                Tail(config_vars))

RECURSIVE SetVariables(_, _)
\* the loop over config_vars: every variable with an effective value
SetVariables(config, config_vars) ==
    IF config_vars = <<>> THEN config
    ELSE SetVariables(IF get_effective_value(Head(config_vars)) # PyNone
                      THEN DictSet(config, Head(config_vars).name,
                                   Scalar(get_effective_value(Head(config_vars))))
                      ELSE config,
                      Tail(config_vars))

\* instance_id[:8]
IdPrefix(instance_id) == SubSeq(instance_id, 1, IF Len(instance_id) < 8 THEN Len(instance_id) ELSE 8)

\* the id given to a component that sets none
DefaultId(component) ==
    StrReplace(StrReplace(StrLower(component.name), " ", "_"), "-", "_")
        \o <<"_">> \o IdPrefix(component.instance_id)

\* _generate_component_config: the entry of one component, Scalar(PyNone) for None
generate_component_config(component) ==
    LET named == IF component.name # component.component_type
                 THEN DictSet(Dict(<<>>), "platform", Text(component.name))
                 ELSE Dict(<<>>)
        set == SetVariables(named, component.config_vars)
        config == IF ~HasKey(set, "id") THEN DictSet(set, "id", Text(DefaultId(component)))
                  ELSE set
    IN IF config.items # <<>> THEN config ELSE Scalar(PyNone)

\* the types of the components in first-seen order: the keys of component_groups
GroupKeys(components) ==
    LET firsts == {i \in 1..Len(components) :
                      \A h \in 1..(i - 1) :
                          components[h].component_type # components[i].component_type}
        nth(k) == CHOOSE i \in firsts : Cardinality({h \in firsts : h < i}) = k - 1
    IN [k \in 1..Cardinality(firsts) |-> components[nth(k)].component_type]

\* component_groups[component_type]
GroupOf(components, component_type) ==
    LET OfType(c) == c.component_type = component_type IN SelectSeq(components, OfType)

\* an entry put first in its section
AddEntryFirst(config, component_type, component) ==
    IF DictGet(config, component_type).kind = "list"
    THEN DictSet(config, component_type,
                 List(<<generate_component_config(component)>>
                          \o DictGet(config, component_type).items))
    ELSE DictSet(config, component_type, generate_component_config(component))

\* the body of the inner loop: the entry of one component goes into its section
AddEntry(config, component_type, component) ==
    IF generate_component_config(component) = Scalar(PyNone) THEN config
    ELSE IF DictGet(config, component_type).kind = "list"
    THEN DictSet(config, component_type,
                 List(Append(DictGet(config, component_type).items,
                             generate_component_config(component))))
    ELSE DictSet(config, component_type, generate_component_config(component))

RECURSIVE AddEntries(_, _, _)
AddEntries(config, component_type, comps) ==
    IF comps = <<>> THEN config
    ELSE AddEntries(AddEntry(config, component_type, Head(comps)), component_type, Tail(comps))

\* a section started as an empty list whether or not the key is there
EnsureSectionAnew(config, component_type) == DictSet(config, component_type, List(<<>>))

\* if component_type not in config: config[component_type] = []
EnsureSection(config, component_type) ==
    IF ~HasKey(config, component_type) THEN DictSet(config, component_type, List(<<>>))
    ELSE config

RECURSIVE AddGroups(_, _, _)
\* the outer loop over component_groups
AddGroups(config, keys, components) ==
    IF keys = <<>> THEN config
    ELSE AddGroups(AddEntries(EnsureSection(config, Head(keys)),
                              Head(keys), GroupOf(components, Head(keys))),
                   Tail(keys), components)

\* generate_esphome_config, up to the serialization of the configuration
generate_esphome_config(components, device_name, platform, board) ==
    AddGroups(SeededConfig(device_name, platform, board), GroupKeys(components), components)

MaxProject == 3

WithValue(var, value) == [var EXCEPT !.current_value = value]

T_sensor == <<"s", "e", "n", "s", "o", "r">>
T_switch == <<"s", "w", "i", "t", "c", "h">>

\* placed components: two sensors, one of them with an id of its own and an
\* unset variable, a switch without variables, and two components whose type
\* is a section every configuration starts with
C_dht ==
    ESPHomeComponent(<<"d", "h", "t">>, T_sensor, "",
                     <<WithValue(ConfigVariable("pin", "", "pin", TRUE, PyNone),
                                 PyStr(<<"G", "P", "I", "O", "2">>))>>,
                     uuid4(1))
C_bme ==
    ESPHomeComponent(<<"b", "m", "e">>, T_sensor, "",
                     <<ConfigVariable("address", "", "i2c_address", FALSE, PyNone),
                       WithValue(ConfigVariable("id", "", "identifier", FALSE, PyNone),
                                 PyStr(<<"o", "u", "t">>))>>,
                     uuid4(2))
C_gpio == ESPHomeComponent(<<"G", "P", "I", "O", " ", "p", "i", "n">>, T_switch, "", <<>>, uuid4(3))
C_api ==
    ESPHomeComponent(K_api, K_api, "",
                     <<ConfigVariable("port", "", "int", FALSE, PyInt(6053))>>, uuid4(4))
C_ap == ESPHomeComponent(<<"a", "p">>, K_wifi, "", <<>>, uuid4(5))

GeneratorComponents == {C_dht, C_bme, C_gpio, C_api, C_ap}

DeviceName == <<"m", "y", "_", "d", "e", "v", "i", "c", "e">>
Platform == <<"E", "S", "P", "3", "2">>
Board == <<"n", "o", "d", "e", "m", "c", "u", "-", "3", "2", "s">>

NoYamlCall == [made |-> FALSE, components |-> <<>>, config |-> Scalar(PyNone)]

\* generate_esphome_config(components) with the default device, platform and board;
\* a call leaves nothing behind for the next, so a behaviour makes one
Generate ==
    /\ ~yaml_call.made
    /\ \E components \in SeqsUpTo(GeneratorComponents, MaxProject) :
           yaml_call' = [made |-> TRUE, components |-> components,
                         config |-> generate_esphome_config(components, DeviceName,
                                                            Platform, Board)]

GeneratorInit == yaml_call = NoYamlCall

NoEntryCall == [made |-> FALSE, component |-> C_dht, entry |-> Scalar(PyNone)]

EntryNames ==
    {<<"d", "h", "t">>, <<"M", "y", " ", "L", "E", "D">>, <<"d", "h", "t", "-", "2", "2">>,
     <<"d", "h", "t", ".", "2", "2">>, K_api}

EntryTypes == {T_sensor, K_api}

\* variable lists: none; a pin that is set; an unset pin before a count with a
\* default; an id that is set; a variable called platform; an id that is unset
EntryVariables ==
    {<<>>,
     <<WithValue(ConfigVariable("pin", "", "pin", TRUE, PyNone),
                 PyStr(<<"G", "P", "I", "O", "2">>))>>,
     <<ConfigVariable("pin", "", "pin", TRUE, PyNone),
       ConfigVariable("count", "", "int", FALSE, PyInt(3))>>,
     <<WithValue(ConfigVariable("id", "", "identifier", FALSE, PyNone),
                 PyStr(<<"o", "u", "t">>))>>,
     <<WithValue(ConfigVariable("platform", "", "string", TRUE, PyNone),
                 PyStr(<<"c", "u", "s", "t", "o", "m">>))>>,
     <<ConfigVariable("id", "", "identifier", FALSE, PyNone)>>}

\* instance ids: a uuid, and a shorter text as from_dict may set it
EntryIds == {uuid4(7), <<"a", "b">>}

EntryComponents ==
    {ESPHomeComponent(name, component_type, "", config_vars, instance_id) :
        name \in EntryNames, component_type \in EntryTypes,
        config_vars \in EntryVariables, instance_id \in EntryIds}

\* _generate_component_config(component); a call leaves nothing behind for the
\* next, so a behaviour makes one
GenerateEntry ==
    /\ ~entry_call.made
    /\ \E component \in EntryComponents :
           entry_call' = [made |-> TRUE, component |-> component,
                          entry |-> generate_component_config(component)]

EntryInit == entry_call = NoEntryCall

-----------------------------------------------------------------------------
(* Merging parsed documents: src/utils/yaml_generator.py 168-196.

   _deep_merge changes base_dict in place and stores the values of merge_dict
   themselves, so the parsed documents are objects on a heap: a sequence of
   dict and list objects whose items are scalars or references to objects. *)

Ref(addr) == [kind |-> "ref", items |-> <<>>, value |-> PyInt(addr)]
AddrOf(v) == v.value.n

IsDictRef(heap, v) == v.kind = "ref" /\ heap[AddrOf(v)].kind = "dict"
IsListRef(heap, v) == v.kind = "ref" /\ heap[AddrOf(v)].kind = "list"

\* in a document, *anchor: the node is the object of the key anchor of the same mapping
AliasOf(anchor) == [kind |-> "alias", items |-> <<>>, value |-> PyStr(<<anchor>>)]

RECURSIVE Load(_, _)
RECURSIVE LoadItems(_, _, _, _)
\* the items of a collection node from the i-th on, loaded after acc
LoadItems(heap, node, i, acc) ==
    IF i > Len(node.items) THEN [heap |-> heap, items |-> acc]
    ELSE IF node.kind = "dict"
    THEN LET child == node.items[i].val IN
         IF child.kind = "alias"
         THEN LET j == CHOOSE j \in 1..Len(acc) : <<acc[j].key>> = child.value.s
              IN LoadItems(heap, node, i + 1, Append(acc, Item(node.items[i].key, acc[j].val)))
         ELSE LET r == Load(heap, child)
              IN LoadItems(r.heap, node, i + 1, Append(acc, Item(node.items[i].key, r.val)))
    ELSE LET r == Load(heap, node.items[i])
         IN LoadItems(r.heap, node, i + 1, Append(acc, r.val))

\* yaml.safe_load: every mapping and sequence of the document is a new object,
\* an alias is the object of its anchor
Load(heap, node) ==
    IF node.kind = "scalar" THEN [heap |-> heap, val |-> node]
    ELSE LET r == LoadItems(heap, node, 1, <<>>)
         IN [heap |-> Append(r.heap, [kind |-> node.kind, items |-> r.items, value |-> PyNone]),
             val |-> Ref(Len(r.heap) + 1)]

\* base_dict[key] = value
SetItem(heap, base_dict, key, value) == [heap EXCEPT ![base_dict] = DictSet(@, key, value)]

\* base_dict[key].extend(value)
Extend(heap, list, value) == [heap EXCEPT ![list].items = @ \o heap[value].items]

RECURSIVE deep_merge_from(_, _, _, _)
RECURSIVE deep_merge_then_own_items(_, _, _)
\* a merge that goes on to loop over base_dict's own items
deep_merge_then_own_items(heap, base_dict, merge_dict) ==
    deep_merge_from(deep_merge_from(heap, base_dict, merge_dict, 1), base_dict, base_dict, 1)

RECURSIVE deep_merge(_, _, _)
\* the loop of _deep_merge from the i-th item of merge_dict on
deep_merge_from(heap, base_dict, merge_dict, i) ==
    IF i > Len(heap[merge_dict].items) THEN heap
    ELSE LET key == heap[merge_dict].items[i].key
             value == heap[merge_dict].items[i].val
             base == heap[base_dict]
             merged ==
                 IF HasKey(base, key)
                 THEN IF IsDictRef(heap, DictGet(base, key)) /\ IsDictRef(heap, value)
                      THEN deep_merge(heap, AddrOf(DictGet(base, key)), AddrOf(value))
                      ELSE IF IsListRef(heap, DictGet(base, key)) /\ IsListRef(heap, value)
                      THEN Extend(heap, AddrOf(DictGet(base, key)), AddrOf(value))
                      ELSE SetItem(heap, base_dict, key, value)
                 ELSE SetItem(heap, base_dict, key, value)
         IN deep_merge_from(merged, base_dict, merge_dict, i + 1)

\* _deep_merge(base_dict, merge_dict): the heap it leaves
deep_merge(heap, base_dict, merge_dict) == deep_merge_from(heap, base_dict, merge_dict, 1)

\* if config: self._deep_merge(merged_config, config)
MergeLoaded(heap, merged_config, config) ==
    IF heap[config].items # <<>> THEN deep_merge(heap, merged_config, config) ELSE heap

RECURSIVE Resolve(_, _)
\* the nested value an object stands for
Resolve(heap, v) ==
    IF v.kind = "scalar" THEN v
    ELSE LET obj == heap[AddrOf(v)] IN
         IF obj.kind = "list"
         THEN List([i \in 1..Len(obj.items) |-> Resolve(heap, obj.items[i])])
         ELSE Dict([i \in 1..Len(obj.items) |->
                        Item(obj.items[i].key, Resolve(heap, obj.items[i].val))])

One == Scalar(PyInt(1))
Two == Scalar(PyInt(2))

\* values of the first document, and absence of the key
ValuesA == {One, List(<<One>>), Dict(<<Item("z", One)>>), Dict(<<Item("z", List(<<One>>))>>)}

\* values of the second document
ValuesB ==
    {Two, List(<<Two>>), Dict(<<Item("z", Two)>>), Dict(<<Item("z", List(<<Two>>))>>),
     Dict(<<Item("w", Two)>>)}

\* a mapping with the keys x and y, each with one of the values or absent
DocumentsOver(values) ==
    {Dict(<<>>)} \cup {Dict(<<Item("x", vx)>>) : vx \in values}
        \cup {Dict(<<Item("y", vy)>>) : vy \in values}
        \cup {Dict(<<Item("x", vx), Item("y", vy)>>) : vx \in values, vy \in values}

\* x: &a <collection>, y: *a
AliasedDocuments(values) ==
    {Dict(<<Item("x", vx), Item("y", AliasOf("x"))>>) : vx \in {v \in values : v.kind # "scalar"}}

DocumentsA == DocumentsOver(ValuesA) \cup AliasedDocuments(ValuesA)
DocumentsB == DocumentsOver(ValuesB)

NoMergeCall ==
    [made |-> FALSE, merged |-> FALSE, emptied |-> FALSE, merged_config |-> Ref(1),
     config |-> Ref(1), before |-> <<Dict(<<>>)>>, after |-> <<Dict(<<>>)>>,
     last |-> <<Dict(<<>>)>>]

\* merge_yaml_configs([a, b]): merged_config = {}, then every document that is
\* not empty is loaded and merged into it.  The record keeps the heap before
\* and after the merge of b.
MergeYamlConfigs ==
    /\ ~merge_call.made
    /\ \E a \in DocumentsA, b \in DocumentsB :
           LET la == Load(<<Dict(<<>>)>>, a)
               ma == MergeLoaded(la.heap, 1, AddrOf(la.val))
               lb == Load(ma, b)
               mb == MergeLoaded(lb.heap, 1, AddrOf(lb.val))
           IN merge_call' = [made |-> TRUE, merged |-> b.items # <<>>, emptied |-> FALSE,
                             merged_config |-> Ref(1), config |-> lb.val,
                             before |-> lb.heap, after |-> mb, last |-> mb]

\* _deep_merge(merged_config, {}) on the result of a merge
DeepMergeEmpty ==
    /\ merge_call.made
    /\ ~merge_call.emptied
    /\ LET le == Load(merge_call.after, Dict(<<>>))
       IN merge_call' = [merge_call EXCEPT !.emptied = TRUE,
                                           !.last = deep_merge(le.heap, 1, AddrOf(le.val))]

MergeInit == merge_call = NoMergeCall

-----------------------------------------------------------------------------
(* Properties of the generated configuration *)

Seeded(component_type) == component_type \in PreSeeded
NotSeeded(component_type) == component_type \notin PreSeeded

\* the entries of the input components of one type, in input order
EntriesOf(components, component_type) ==
    [j \in 1..Len(GroupOf(components, component_type)) |->
         generate_component_config(GroupOf(components, component_type)[j])]

\* the section of the type is the list of the entries of its components
SectionIsList(call, component_type) ==
    /\ HasKey(call.config, component_type)
    /\ DictGet(call.config, component_type) = List(EntriesOf(call.components, component_type))

\* the section of the type is the entry of the last component of the type
SectionIsLastEntry(call, component_type) ==
    /\ HasKey(call.config, component_type)
    /\ LET entries == EntriesOf(call.components, component_type)
       IN DictGet(call.config, component_type) = entries[Len(entries)]

\* the sections added to the seeded ones are those of the other types, first seen first
AddedInFirstSeenOrder(call) ==
    SelectSeq(DictKeys(call.config), NotSeeded) = SelectSeq(GroupKeys(call.components), NotSeeded)

InputTypes(call) == Range(GroupKeys(call.components))

\* C10 (as claimed): under each component_type key the configuration holds a
\* list with one entry per input component of the type, in input order, and the
\* sections that are not pre-seeded stand in first-seen type order.
C10_OneEntryPerComponent ==
    yaml_call.made =>
        /\ \A t \in InputTypes(yaml_call) : SectionIsList(yaml_call, t)
        /\ AddedInFirstSeenOrder(yaml_call)

\* C10 (amended): that holds for every component_type that is not a pre-seeded
\* section (esphome, wifi, logger, api, ota); under a pre-seeded key the
\* section is no list but the entry of the last input component of the type.
C10_OneEntryPerComponentUnseeded ==
    yaml_call.made =>
        /\ \A t \in InputTypes(yaml_call) :
               IF Seeded(t) THEN SectionIsLastEntry(yaml_call, t)
               ELSE SectionIsList(yaml_call, t)
        /\ AddedInFirstSeenOrder(yaml_call)

\* two sensors around a component of the pre-seeded type api
C10_Witness ==
    /\ yaml_call.made
    /\ yaml_call.components = <<C_dht, C_api, C_bme>>
    /\ Len(DictGet(yaml_call.config, T_sensor).items) = 2

\* C11: a pre-seeded section (esphome, wifi, logger, api, ota) changes only
\* when the type of an input component is the section's name; it then holds
\* the entry of such a component in place of the seeded mapping, and every
\* other pre-seeded section keeps its seeded content.
C11_SeededSectionsFrame ==
    yaml_call.made =>
        \A k \in PreSeeded :
            /\ HasKey(yaml_call.config, k)
            /\ IF k \in InputTypes(yaml_call)
               THEN \E i \in 1..Len(yaml_call.components) :
                        /\ yaml_call.components[i].component_type = k
                        /\ DictGet(yaml_call.config, k)
                               = generate_component_config(yaml_call.components[i])
               ELSE DictGet(yaml_call.config, k)
                        = DictGet(SeededConfig(DeviceName, Platform, Board), k)

\* a configuration generated with an api component: the api section is that
\* component's entry, the wifi section is as seeded
C11_Witness ==
    /\ yaml_call.made
    /\ yaml_call.components = <<C_dht, C_api>>
    /\ DictGet(yaml_call.config, K_api) = generate_component_config(C_api)
    /\ DictGet(yaml_call.config, K_wifi) = DictGet(SeededConfig(DeviceName, Platform, Board), K_wifi)

-----------------------------------------------------------------------------
(* Properties of a component's entry *)

\* current_value if not None, else default_value
EffectiveValue(var) ==
    IF var.current_value # PyNone THEN var.current_value ELSE var.default_value

\* the variable of the component called name has a value
HasValued(component, name) ==
    \E j \in 1..Len(component.config_vars) :
        component.config_vars[j].name = name /\ EffectiveValue(component.config_vars[j]) # PyNone

\* one key per variable with a value, holding it; none for the others (the keys
\* platform and id may come from the component's name and instance_id)
VariableKeys(component, entry) ==
    \A j \in 1..Len(component.config_vars) :
        LET var == component.config_vars[j] IN
        IF EffectiveValue(var) # PyNone
        THEN HasKey(entry, var.name) /\ DictGet(entry, var.name) = Scalar(EffectiveValue(var))
        ELSE var.name \notin {"platform", "id"} => ~HasKey(entry, var.name)

\* the catalog-key normalization: lowercase, spaces and dots to underscores
CatalogNormalized(name) ==
    [i \in 1..Len(name) |-> IF name[i] \in {" ", "."} THEN "_" ELSE LowerChar(name[i])]

\* lowercase, spaces and hyphens to underscores
IdNormalized(name) ==
    [i \in 1..Len(name) |-> IF name[i] \in {" ", "-"} THEN "_" ELSE LowerChar(name[i])]

First8(instance_id) == [i \in 1..(IF Len(instance_id) < 8 THEN Len(instance_id) ELSE 8) |-> instance_id[i]]

PlatformIsName(component, entry) ==
    HasKey(entry, "platform") /\ DictGet(entry, "platform") = Text(component.name)

\* C12 (as claimed): the entry has platform = name exactly when the name differs
\* from the type, one key per variable with an effective value and none for the
\* others, and, when no variable gives an id, the id normalized(name) "_"
\* instance_id[:8] with the catalog-key normalization.
C12_EntryContent ==
    entry_call.made =>
        LET c == entry_call.component
            e == entry_call.entry
        IN /\ PlatformIsName(c, e) <=> c.name # c.component_type
           /\ VariableKeys(c, e)
           /\ ~HasValued(c, "id") =>
                  /\ HasKey(e, "id")
                  /\ DictGet(e, "id") = Text(CatalogNormalized(c.name) \o <<"_">>
                                                 \o First8(c.instance_id))

\* C12 (amended): a variable called platform that has a value takes the
\* platform key; otherwise platform = name exactly when the name differs from
\* the type, and there is no platform key when it does not.  The name in the
\* id is lowercased with spaces and hyphens, not dots, turned to underscores.
C12_EntryContentAsBuilt ==
    entry_call.made =>
        LET c == entry_call.component
            e == entry_call.entry
        IN /\ ~HasValued(c, "platform") =>
                  /\ PlatformIsName(c, e) <=> c.name # c.component_type
                  /\ c.name = c.component_type => ~HasKey(e, "platform")
           /\ VariableKeys(c, e)
           /\ ~HasValued(c, "id") =>
                  /\ HasKey(e, "id")
                  /\ DictGet(e, "id") = Text(IdNormalized(c.name) \o <<"_">>
                                                 \o First8(c.instance_id))

\* the entry of dht (sensor) with pin set to GPIO2: platform, pin and id
C12_Witness ==
    /\ entry_call.made
    /\ entry_call.component.name = <<"d", "h", "t">>
    /\ entry_call.component.component_type = T_sensor
    /\ entry_call.component.instance_id = uuid4(7)
    /\ entry_call.entry
           = Dict(<<Item("platform", Text(<<"d", "h", "t">>)),
                    Item("pin", Text(<<"G", "P", "I", "O", "2">>)),
                    Item("id", Text(<<"d", "h", "t", "_", "0", "0", "0", "0", "0", "0", "0", "7">>))>>)

\* the entry's id was synthesized: no variable of the component gave one
IdSynthesized == entry_call.made /\ ~HasValued(entry_call.component, "id")

\* C30: every synthesized id is a valid identifier under the Validator's
\* identifier rule, for every component name and instance_id.
C30_SynthesizedIdValid ==
    IdSynthesized =>
        Accepts(validate_identifier(DictGet(entry_call.entry, "id").value.s))

-----------------------------------------------------------------------------
(* Properties of the merge *)

RECURSIVE FollowsMergeRules(_, _, _)
\* m is a merged with b by the rules: a key of both holds the merge of two
\* mappings, a's sequence followed by b's, or else b's value; a key of b only
\* holds b's value; a key of a only keeps a's value
FollowsMergeRules(a, b, m) ==
    /\ \A i \in 1..Len(m.items) : HasKey(a, m.items[i].key) \/ HasKey(b, m.items[i].key)
    /\ \A i \in 1..Len(a.items) :
           LET key == a.items[i].key IN
           /\ HasKey(m, key)
           /\ IF ~HasKey(b, key) THEN DictGet(m, key) = DictGet(a, key)
              ELSE IF DictGet(a, key).kind = "dict" /\ DictGet(b, key).kind = "dict"
              THEN /\ DictGet(m, key).kind = "dict"
                   /\ FollowsMergeRules(DictGet(a, key), DictGet(b, key), DictGet(m, key))
              ELSE IF DictGet(a, key).kind = "list" /\ DictGet(b, key).kind = "list"
              THEN DictGet(m, key) = List(DictGet(a, key).items \o DictGet(b, key).items)
              ELSE DictGet(m, key) = DictGet(b, key)
    /\ \A i \in 1..Len(b.items) :
           LET key == b.items[i].key IN
           /\ HasKey(m, key)
           /\ ~HasKey(a, key) => DictGet(m, key) = DictGet(b, key)

\* the values before, and the value after, a merge
BaseBefore == Resolve(merge_call.before, merge_call.merged_config)
ConfigBefore == Resolve(merge_call.before, merge_call.config)
BaseAfter == Resolve(merge_call.after, merge_call.merged_config)

\* no object of the base document is under two of its keys
Unshared ==
    \A i, j \in 1..Len(merge_call.before[1].items) :
        (i # j /\ merge_call.before[1].items[i].val.kind = "ref")
            => merge_call.before[1].items[i].val # merge_call.before[1].items[j].val

\* C13: deep_merge(a, b) is, for every pair of nested documents, the merge by
\* the rules: recursion for two mappings, concatenation for two sequences,
\* b's value otherwise, keys only in b added, keys only in a keeping a's value.
C13_MergeByRules ==
    merge_call.merged => FollowsMergeRules(BaseBefore, ConfigBefore, BaseAfter)

\* the rules hold of documents without shared objects
MergeByRulesUnshared ==
    (merge_call.merged /\ Unshared) => FollowsMergeRules(BaseBefore, ConfigBefore, BaseAfter)

\* C14: merging the empty document into a merge leaves it as it is:
\* deep_merge(deep_merge(a, b), {}) = deep_merge(a, b).
C14_EmptyIsRightIdentity ==
    merge_call.emptied
        => Resolve(merge_call.last, merge_call.merged_config) = BaseAfter

\* the empty document was merged into a merge with a concatenated sequence
C14_Witness ==
    /\ merge_call.emptied
    /\ merge_call.merged
    /\ HasKey(BaseAfter, "x")
    /\ DictGet(BaseAfter, "x") = List(<<One, Two>>)
    /\ Resolve(merge_call.last, merge_call.merged_config) = BaseAfter

-----------------------------------------------------------------------------
(* Properties of the validator *)

\* the type tags the validator knows
RecognizedTypes ==
    {"identifier", "pin", "i2c_address", "frequency", "time", "percentage", "ip_address",
     "int", "float", "bool", "string"}

\* C15: validate_by_type(None, t, ctx) is (True, None) for every data type and
\* context, and validate_by_type(v, t, ctx) is (True, None) for every value
\* when t is not a recognized type tag.
C15_NoneAndUnknownValid ==
    (validate_call.made
         /\ (validate_call.value = PyNone \/ validate_call.data_type \notin RecognizedTypes))
        => validate_call.result = Valid

\* C16: the validator never raises: for every value, data type and context,
\* with the platform entry absent or no string, the result is a pair.
C16_NeverRaises == validate_call.made => validate_call.result.exc = "None"

\* a pin given as an integer n, or as the text GPIO<n> or <n>
PinText(s) ==
    IF Len(s) > 4 /\ SubSeq(s, 1, 4) = <<"G", "P", "I", "O">> THEN From(s, 5) ELSE s

PinGiven(value) ==
    \/ value.t = "int"
    \/ value.t = "str" /\ PinText(value.s) # <<>> /\ AllChars(PinText(value.s), IsDigit)

PinNumber(value) == IF value.t = "int" THEN value.n ELSE ParseNat(PinText(value.s))

\* the platform of a call: the context's entry, ESP32 without one
PlatformOf(context) ==
    IF "platform" \in DOMAIN context THEN context["platform"]
    ELSE PyStr(<<"E", "S", "P", "3", "2">>)

PlatformNames == {<<"E", "S", "P", "3", "2">>, <<"E", "S", "P", "8", "2", "6", "6">>}

\* the platform is a name, and ESP32 or ESP8266 only if written so
PlatformGiven(context) ==
    /\ PlatformOf(context).t = "str"
    /\ StrUpper(PlatformOf(context).s) \in PlatformNames
           => PlatformOf(context).s \in PlatformNames

AllowList(name) ==
    IF name = <<"E", "S", "P", "3", "2">> THEN {n \in 0..39 : n < 6 \/ n > 11}
    ELSE IF name = <<"E", "S", "P", "8", "2", "6", "6">>
    THEN {0, 1, 2, 3, 4, 5, 12, 13, 14, 15, 16}
    ELSE 0..49

AddressGiven(value) ==
    \/ value.t \in {"int", "bool"} /\ 0 <= value.n /\ value.n <= 255
    \/ /\ value.t = "str" /\ Len(value.s) = 4
       /\ value.s[1] = "0" /\ value.s[2] = "x"
       /\ IsHexDigit(value.s[3]) /\ IsHexDigit(value.s[4])

AddressNumber(value) ==
    IF value.t = "str" THEN 16 * HexValue(value.s[3]) + HexValue(value.s[4]) ELSE value.n

\* C18: an I2C address is accepted exactly when it is the text 0xHH or an
\* integer in 0..255 and lies outside 0x00..0x07 and 0x78..0x7F; integers
\* outside 0..255 and every other value are rejected.
C18_I2cAddress ==
    (/\ validate_call.made
     /\ validate_call.data_type = "i2c_address"
     /\ validate_call.value # PyNone)
        => (Accepts(validate_call.result)
                <=> /\ AddressGiven(validate_call.value)
                    /\ AddressNumber(validate_call.value) \notin (0..7) \cup (120..127))

\* the unit is Hz, KHz or MHz in any case of these letters
FrequencyUnit(unit) ==
    \E u \in {<<"h", "z">>, <<"k", "h", "z">>, <<"m", "h", "z">>} :
        /\ Len(unit) = Len(u)
        /\ \A i \in 1..Len(u) : unit[i] = u[i] \/ unit[i] = UpperChar(u[i])

HertzPerUnit(unit) == IF Len(unit) = 2 THEN 1 ELSE IF unit[1] \in {"k", "K"} THEN 1000 ELSE 1000000

\* a number and a unit, more than 0 and at most 1,000,000,000 Hz
FrequencyInRange(s) ==
    LET parts == QuantityParts(s)
        whole == ParseNat(parts.int)
        most == 1000000000 \div HertzPerUnit(parts.unit)
    IN /\ parts.int # <<>>
       /\ FrequencyUnit(parts.unit)
       /\ whole > 0 \/ ParseNat(parts.frac) > 0
       /\ whole < most \/ (whole = most /\ ParseNat(parts.frac) = 0)

\* C19: a frequency is accepted exactly when it is a number followed by one of
\* the units Hz, KHz, MHz in any case and, in Hz, is greater than 0 and at
\* most 1,000,000,000.
C19_Frequency ==
    (/\ validate_call.made
     /\ validate_call.data_type = "frequency"
     /\ validate_call.value # PyNone)
        => (Accepts(validate_call.result)
                <=> validate_call.value.t = "str" /\ FrequencyInRange(validate_call.value.s))

\* 0 <= f <= 100
InPercentRange(f) == f.s = <<>> /\ f.n >= 0 /\ f.n <= 100 * Pow10(f.d)

\* a number in [0, 100]
PercentNumber(value) ==
    \/ value.t \in {"int", "bool"} /\ value.n \in 0..100
    \/ value.t = "float" /\ InPercentRange(value)

\* text that reads as a number in [0, 100]
PercentText(s) == FloatOfStr(s).exc = "None" /\ InPercentRange(FloatOfStr(s).val)

\* text that reads as a number in [0, 100] before a % sign
PercentSuffixed(s) ==
    s # <<>> /\ s[Len(s)] = "%" /\ PercentText(SubSeq(s, 1, Len(s) - 1))

\* C20 (as claimed): a percentage is accepted exactly when it is a number, text
\* that reads as a number, or such text followed by %, and the number is in
\* [0, 100].
C20_Percentage ==
    (/\ validate_call.made
     /\ validate_call.data_type = "percentage"
     /\ validate_call.value # PyNone)
        => (Accepts(validate_call.result)
                <=> \/ PercentNumber(validate_call.value)
                    \/ /\ validate_call.value.t = "str"
                       /\ \/ PercentText(validate_call.value.s)
                          \/ PercentSuffixed(validate_call.value.s))

\* C20 (amended): a percentage is accepted exactly when it is a number in
\* [0, 100], or text that reads as such a number followed by %; text without
\* the % sign is rejected.
C20_PercentageSuffixed ==
    (/\ validate_call.made
     /\ validate_call.data_type = "percentage"
     /\ validate_call.value # PyNone)
        => (Accepts(validate_call.result)
                <=> \/ PercentNumber(validate_call.value)
                    \/ /\ validate_call.value.t = "str"
                       /\ PercentSuffixed(validate_call.value.s))

\* 50 as bare text was rejected
C20_Witness ==
    /\ validate_call.made
    /\ validate_call.data_type = "percentage"
    /\ validate_call.value = PyStr(<<"5", "0">>)
    /\ PercentText(validate_call.value.s)
    /\ ~Accepts(validate_call.result)

-----------------------------------------------------------------------------
(* Extraction of a page's configuration variables: scraper.py 136-375 and  *)
(* 493-501.  A text is given as its lines, a table row as the texts of its *)
(* cells, a definition list as its (dt, dd) pairs.                         *)

\* sub in s
Contains(s, sub) ==
    \E i \in 0..(Len(s) - Len(sub)) : \A k \in 1..Len(sub) : s[i + k] = sub[k]

\* any(word in s for word in words)
ContainsAny(s, words) == \E word \in words : Contains(s, word)

\* any(cv.name == name for cv in config_vars)
HasName(config_vars, name) == \E j \in 1..Len(config_vars) : config_vars[j].name = name

NameChar(ch) == IsLetter(ch) \/ IsDigit(ch) \/ ch = "_"

\* [a-zA-Z_][a-zA-Z0-9_]*
NameBody(s) == s # <<>> /\ ~IsDigit(Head(s)) /\ AllChars(s, NameChar)

\* length of the longest prefix of [a-zA-Z0-9_]
NamePrefixLen(s) ==
    IF AllChars(s, NameChar) THEN Len(s)
    ELSE CHOOSE k \in 0..(Len(s) - 1) :
             (\A i \in 1..k : NameChar(s[i])) /\ ~NameChar(s[k + 1])

\* str.lstrip() of blanks
RECURSIVE SkipBlanks(_)
SkipBlanks(s) == IF s # <<>> /\ Head(s) = " " THEN SkipBlanks(Tail(s)) ELSE s

\* str.strip(chars)
RECURSIVE StripChars(_, _)
StripChars(s, chars) ==
    IF s # <<>> /\ Head(s) \in chars THEN StripChars(Tail(s), chars)
    ELSE IF s # <<>> /\ s[Len(s)] \in chars THEN StripChars(SubSeq(s, 1, Len(s) - 1), chars)
    ELSE s

\* s.split(':', 1): the text before the first colon, and the text after it
BeforeColon(s) == IF IndexIn(s, ":") = 0 THEN s ELSE SubSeq(s, 1, IndexIn(s, ":") - 1)
AfterColon(s) == IF IndexIn(s, ":") = 0 THEN <<>> ELSE From(s, IndexIn(s, ":") + 1)

\* \d+(\.\d+)?
DecimalNumber(s) ==
    LET k == DigitPrefixLen(s) IN
    /\ k > 0
    /\ k < Len(s) => /\ s[k + 1] = "." /\ k + 1 < Len(s)
                     /\ AllChars(From(s, k + 2), IsDigit)

\* \d+(\.\d+)?(unit1|unit2|...) matched to the end of s
NumberWithUnit(s, units) ==
    \E unit \in units :
        /\ Len(s) > Len(unit)
        /\ From(s, Len(s) - Len(unit) + 1) = unit
        /\ DecimalNumber(SubSeq(s, 1, Len(s) - Len(unit)))

\* _infer_data_type(var_name, description)
infer_data_type(var_name, description) ==
    LET var_name_lower == StrLower(var_name)
        desc_lower == StrLower(description)
    IN  IF ContainsAny(var_name_lower, {<<"p", "i", "n">>, <<"g", "p", "i", "o">>}) THEN "pin"
        ELSE IF ContainsAny(var_name_lower, {<<"i", "n", "t", "e", "r", "v", "a", "l">>, <<"t", "i", "m", "e", "o", "u", "t">>, <<"d", "e", "l", "a", "y">>, <<"d", "u", "r", "a", "t", "i", "o", "n">>})
             THEN "time"
        ELSE IF ContainsAny(var_name_lower, {<<"f", "r", "e", "q", "u", "e", "n", "c", "y">>, <<"f", "r", "e", "q">>}) THEN "frequency"
        ELSE IF ContainsAny(var_name_lower, {<<"e", "n", "a", "b", "l", "e">>, <<"i", "n", "v", "e", "r", "t">>, <<"i", "n", "v", "e", "r", "t", "e", "d">>}) THEN "bool"
        ELSE IF ContainsAny(var_name_lower, {<<"c", "o", "u", "n", "t">>, <<"n", "u", "m", "b", "e", "r">>, <<"d", "e", "c", "i", "m", "a", "l", "s">>, <<"t", "h", "r", "e", "s", "h", "o", "l", "d">>})
             THEN "int"
        ELSE IF ContainsAny(var_name_lower, {<<"t", "e", "m", "p", "e", "r", "a", "t", "u", "r", "e">>, <<"v", "o", "l", "t", "a", "g", "e">>, <<"c", "u", "r", "r", "e", "n", "t">>, <<"p", "o", "w", "e", "r">>})
             THEN "float"
        ELSE IF var_name_lower \in {<<"i", "d">>, <<"n", "a", "m", "e">>} THEN "identifier"
        ELSE IF ContainsAny(desc_lower, {<<"i", "n", "t", "e", "g", "e", "r">>, <<"n", "u", "m", "b", "e", "r">>}) THEN "int"
        ELSE IF ContainsAny(desc_lower, {<<"f", "l", "o", "a", "t">>, <<"d", "e", "c", "i", "m", "a", "l">>}) THEN "float"
        ELSE IF ContainsAny(desc_lower, {<<"b", "o", "o", "l", "e", "a", "n">>, <<"b", "o", "o", "l">>, <<"t", "r", "u", "e">>, <<"f", "a", "l", "s", "e">>}) THEN "bool"
        ELSE IF ContainsAny(desc_lower, {<<"t", "i", "m", "e">>, <<"d", "u", "r", "a", "t", "i", "o", "n">>, <<"m", "s">>, <<"s", "e", "c", "o", "n", "d", "s">>}) THEN "time"
        ELSE IF ContainsAny(desc_lower, {<<"f", "r", "e", "q", "u", "e", "n", "c", "y">>, <<"h", "z">>}) THEN "frequency"
        ELSE IF ContainsAny(desc_lower, {<<"p", "e", "r", "c", "e", "n", "t", "a", "g", "e">>, <<"%">>}) THEN "percentage"
        ELSE "string"

\* _infer_type_from_value(value)
infer_type_from_value(value) ==
    LET v == StripChars(StrStrip(value), {"\"", "'"}) IN
    IF v = <<>> \/ v \in {<<"n", "u", "l", "l">>, <<"~">>} THEN "string"
    ELSE IF StrLower(v) \in {<<"t", "r", "u", "e">>, <<"f", "a", "l", "s", "e">>, <<"y", "e", "s">>, <<"n", "o">>, <<"o", "n">>, <<"o", "f", "f">>} THEN "bool"
    ELSE IF Contains(v, <<".">>) /\ PyFloatOf(PyStr(v)).exc = "None" THEN "float"
    ELSE IF ~Contains(v, <<".">>) /\ PyIntOf(PyStr(v)).exc = "None" THEN "int"
    ELSE IF NumberWithUnit(v, {<<"m", "s">>, <<"s">>, <<"m", "i", "n">>, <<"h">>}) THEN "time"
    ELSE IF NumberWithUnit(v, {<<"H", "z">>, <<"K", "H", "z">>, <<"M", "H", "z">>}) THEN "frequency"
    ELSE IF \/ Len(v) > 4 /\ SubSeq(v, 1, 4) = <<"G", "P", "I", "O">> /\ AllChars(From(v, 5), IsDigit)
            \/ AllChars(v, IsDigit)
         THEN "pin"
    ELSE "string"

\* one line of a YAML example: the variable it gives, if any
YamlLineGives(line) ==
    /\ Contains(line, <<":">>)
    /\ Head(line) # "#"
    /\ MatchToEnd(NameBody, StrStrip(BeforeColon(line)))
    /\ StrStrip(BeforeColon(line)) \notin
           {<<"e", "s", "p", "h", "o", "m", "e">>, <<"w", "i", "f", "i">>, <<"a", "p", "i">>, <<"o", "t", "a">>, <<"l", "o", "g", "g", "e", "r">>, <<"w", "e", "b", "_", "s", "e", "r", "v", "e", "r">>}

YamlLineVariable(line) ==
    LET var_name == StrStrip(BeforeColon(line)) IN
    ConfigVariable(var_name, <<"C", "o", "n", "f", "i", "g", "u", "r", "a", "t", "i", "o", "n", " ", "p", "a", "r", "a", "m", "e", "t", "e", "r", " ", "f", "o", "r", " ">> \o var_name,
                   infer_type_from_value(StrStrip(AfterColon(line))), FALSE, PyNone)

RECURSIVE extract_vars_from_yaml(_)
\* _extract_vars_from_yaml(yaml_text), yaml_text given as its lines
extract_vars_from_yaml(lines) ==
    IF lines = <<>> THEN <<>>
    ELSE LET line == StrStrip(Head(lines)) IN
         (IF YamlLineGives(line) THEN <<YamlLineVariable(line)>> ELSE <<>>)
             \o extract_vars_from_yaml(Tail(lines))

\* the line as a pattern compiled with re.IGNORECASE sees it
FoldStr(s) == [i \in 1..Len(s) |-> FoldChar(s[i])]

\* re.search(r'configuration|config|options|parameters', line, re.IGNORECASE)
IsConfigHeading(line) ==
    ContainsAny(FoldStr(line), {<<"c", "o", "n", "f", "i", "g", "u", "r", "a", "t", "i", "o", "n">>, <<"c", "o", "n", "f", "i", "g">>, <<"o", "p", "t", "i", "o", "n", "s">>, <<"p", "a", "r", "a", "m", "e", "t", "e", "r", "s">>})

\* what follows the name in ^([a-zA-Z_][a-zA-Z0-9_]*)\s*[:]\s*(.+)
AfterName(line) == SkipBlanks(From(line, NamePrefixLen(line) + 1))

\* re.match(r'^([a-zA-Z_][a-zA-Z0-9_]*)\s*[:]\s*(.+)', line) of a stripped line
VarMatch(line) ==
    /\ NamePrefixLen(line) > 0 /\ ~IsDigit(Head(line))
    /\ AfterName(line) # <<>> /\ Head(AfterName(line)) = ":"
    /\ SkipBlanks(Tail(AfterName(line))) # <<>>

\* groups 1 and 2 of the match
VarMatchName(line) == SubSeq(line, 1, NamePrefixLen(line))
VarMatchDescription(line) == SkipBlanks(Tail(AfterName(line)))

\* the variable of a "key: description" line of a configuration section
FreeTextVariable(line) ==
    LET description == VarMatchDescription(line)
        desc_lower == StrLower(description)
        data_type ==
            IF ContainsAny(desc_lower, {<<"i", "n", "t", "e", "g", "e", "r">>, <<"n", "u", "m", "b", "e", "r">>, <<"p", "i", "n">>, <<"g", "p", "i", "o">>}) THEN "int"
            ELSE IF ContainsAny(desc_lower, {<<"f", "l", "o", "a", "t">>, <<"d", "e", "c", "i", "m", "a", "l">>, <<"t", "e", "m", "p", "e", "r", "a", "t", "u", "r", "e">>, <<"v", "o", "l", "t", "a", "g", "e">>})
                 THEN "float"
            ELSE IF ContainsAny(desc_lower, {<<"b", "o", "o", "l", "e", "a", "n">>, <<"b", "o", "o", "l">>, <<"t", "r", "u", "e">>, <<"f", "a", "l", "s", "e">>, <<"e", "n", "a", "b", "l", "e">>})
                 THEN "bool"
            ELSE IF ContainsAny(desc_lower, {<<"t", "i", "m", "e">>, <<"d", "u", "r", "a", "t", "i", "o", "n">>, <<"i", "n", "t", "e", "r", "v", "a", "l">>}) THEN "time"
            ELSE IF ContainsAny(desc_lower, {<<"f", "r", "e", "q", "u", "e", "n", "c", "y">>, <<"h", "z">>}) THEN "frequency"
            ELSE IF ContainsAny(desc_lower, {<<"p", "e", "r", "c", "e", "n", "t", "a", "g", "e">>, <<"%">>}) THEN "percentage"
            ELSE "string"
    IN  ConfigVariable(VarMatchName(line), description, data_type,
                       ContainsAny(desc_lower, {<<"r", "e", "q", "u", "i", "r", "e", "d">>, <<"m", "u", "s", "t">>, <<"m", "a", "n", "d", "a", "t", "o", "r", "y">>}), PyNone)

KnownKeys ==
    {<<"i", "d">>, <<"n", "a", "m", "e">>, <<"p", "i", "n">>, <<"p", "l", "a", "t", "f", "o", "r", "m">>, <<"u", "p", "d", "a", "t", "e", "_", "i", "n", "t", "e", "r", "v", "a", "l">>, <<"a", "c", "c", "u", "r", "a", "c", "y", "_", "d", "e", "c", "i", "m", "a", "l", "s">>}

\* re.match(r'^(id|name|pin|platform|update_interval|accuracy_decimals):', line)
KnownKeyMatch(line) ==
    \E key \in KnownKeys : Len(line) > Len(key) /\ SubSeq(line, 1, Len(key) + 1) = key \o <<":">>

\* the variable of a line that starts with a common key
KnownKeyVariable(line) ==
    LET var_name == StrStrip(BeforeColon(line)) IN
    ConfigVariable(var_name, <<"C", "o", "n", "f", "i", "g", "u", "r", "a", "t", "i", "o", "n", " ", "f", "o", "r", " ">> \o var_name,
                   IF var_name \in {<<"p", "i", "n">>, <<"a", "c", "c", "u", "r", "a", "c", "y", "_", "d", "e", "c", "i", "m", "a", "l", "s">>} THEN "int"
                   ELSE IF var_name = <<"u", "p", "d", "a", "t", "e", "_", "i", "n", "t", "e", "r", "v", "a", "l">> THEN "time"
                   ELSE IF var_name \in {<<"i", "d">>, <<"n", "a", "m", "e">>} THEN "identifier"
                   ELSE "string",
                   var_name \in {<<"n", "a", "m", "e">>, <<"p", "l", "a", "t", "f", "o", "r", "m">>}, PyNone)

RECURSIVE ParseContentLines(_, _, _)
\* the loop over the lines of the content, lines 148-207
ParseContentLines(lines, in_config_section, config_vars) ==
    IF lines = <<>> THEN config_vars
    ELSE LET line == StrStrip(Head(lines)) IN
         IF IsConfigHeading(line) THEN ParseContentLines(Tail(lines), TRUE, config_vars)
         ELSE IF VarMatch(line) /\ in_config_section
              THEN ParseContentLines(Tail(lines), in_config_section,
                                     Append(config_vars, FreeTextVariable(line)))
         ELSE IF KnownKeyMatch(line) /\ ~HasName(config_vars, KnownKeyVariable(line).name)
              THEN ParseContentLines(Tail(lines), in_config_section,
                                     Append(config_vars, KnownKeyVariable(line)))
         ELSE ParseContentLines(Tail(lines), in_config_section, config_vars)

\* _parse_config_variables_from_content(content), content given as its lines
parse_config_variables_from_content(content) == ParseContentLines(content, FALSE, <<>>)

\* a table row has a name in its first cell that is not a footnote
RowGives(cells) == Len(cells) >= 2 /\ cells[1] # <<>> /\ Head(cells[1]) # "*"

\* the variable of a table row, lines 231-256
RowVariable(cells) ==
    LET type_cell == IF Len(cells) > 2 THEN StrLower(cells[3]) ELSE <<>> IN
    ConfigVariable(cells[1], cells[2],
                   IF Contains(type_cell, <<"i", "n", "t">>) THEN "int"
                   ELSE IF Contains(type_cell, <<"f", "l", "o", "a", "t">>) THEN "float"
                   ELSE IF Contains(type_cell, <<"b", "o", "o", "l">>) THEN "bool"
                   ELSE "string",
                   Contains(type_cell, <<"r", "e", "q", "u", "i", "r", "e", "d">>), PyNone)

RECURSIVE TableVariables(_)
\* the rows of a table after its header row, in order
TableVariables(rows) ==
    IF rows = <<>> THEN <<>>
    ELSE (IF RowGives(Head(rows)) THEN <<RowVariable(Head(rows))>> ELSE <<>>)
             \o TableVariables(Tail(rows))

\* the variable of a (dt, dd) pair, lines 264-276
DefinitionVariable(pair) ==
    ConfigVariable(pair[1], pair[2], infer_data_type(pair[1], pair[2]),
                   Contains(StrLower(pair[2]), <<"r", "e", "q", "u", "i", "r", "e", "d">>), PyNone)

RECURSIVE DefinitionListVariables(_)
\* the zipped dt and dd elements of a definition list, in order
DefinitionListVariables(pairs) ==
    IF pairs = <<>> THEN <<>>
    ELSE (IF Head(pairs)[1] # <<>> /\ MatchToEnd(NameBody, Head(pairs)[1])
          THEN <<DefinitionVariable(Head(pairs))>> ELSE <<>>)
             \o DefinitionListVariables(Tail(pairs))

RECURSIVE AppendNew(_, _)
\* for var in new_vars: if not any(cv.name == var.name for cv in config_vars):
\*     config_vars.append(var)
AppendNew(config_vars, new_vars) ==
    IF new_vars = <<>> THEN config_vars
    ELSE AppendNew(IF HasName(config_vars, Head(new_vars).name) THEN config_vars
                   ELSE Append(config_vars, Head(new_vars)),
                   Tail(new_vars))

\* Method 1: the table and the definition list under the parent of a
\* configuration section, appended as found
MarkupVariables(page) ==
    IF page.config_section
    THEN TableVariables(page.rows) \o DefinitionListVariables(page.definitions)
    ELSE <<>>

\* _parse_config_variables(soup): Method 1, then the code block's variables
parse_config_variables(page) ==
    AppendNew(MarkupVariables(page), extract_vars_from_yaml(page.code))

\* the config_vars of scrape_component_page, lines 493-501
ScrapedVariables(page) ==
    IF page.content # <<>>
    THEN AppendNew(parse_config_variables(page),
                   parse_config_variables_from_content(page.content))
    ELSE parse_config_variables(page)

MaxRows == 2
MaxDefinitions == 1
MaxCodeLines == 1
MaxContentLines == 3

\* table rows: a pin with a type cell, a mode without one, a footnote
PageRows ==
    {<<<<"p", "i", "n">>, <<"T", "h", "e", " ", "p", "i", "n">>, <<"i", "n", "t", ",", " ", "r", "e", "q", "u", "i", "r", "e", "d">>>>, <<<<"m", "o", "d", "e">>, <<"T", "h", "e", " ", "m", "o", "d", "e">>>>,
     <<<<"*">>, <<"s", "e", "e", " ", "b", "e", "l", "o", "w">>>>}

\* (dt, dd) pairs: a pin, and a term that is not a name
PageDefinitions ==
    {<<<<"p", "i", "n">>, <<"P", "i", "n", " ", "o", "f", " ", "t", "h", "e", " ", "s", "e", "n", "s", "o", "r", ",", " ", "r", "e", "q", "u", "i", "r", "e", "d">>>>, <<<<"u", "p", "d", "a", "t", "e", " ", "i", "n", "t", "e", "r", "v", "a", "l">>, <<"a", " ", "t", "i", "m", "e">>>>}

\* lines of the YAML example
PageCodeLines == {<<" ", " ", "p", "i", "n", ":", " ", "G", "P", "I", "O", "4">>, <<"m", "o", "d", "e", ":", " ", "f", "a", "s", "t">>, <<"#", " ", "i", "d", ":", " ", "x">>, <<"w", "i", "f", "i", ":">>}

\* lines of the clean content
PageContentLines ==
    {<<"C", "o", "n", "f", "i", "g", "u", "r", "a", "t", "i", "o", "n", " ", "v", "a", "r", "i", "a", "b", "l", "e", "s", ":">>, <<"p", "i", "n", ":", " ", "T", "h", "e", " ", "G", "P", "I", "O", " ", "t", "o", " ", "r", "e", "a", "d", " ", "(", "r", "e", "q", "u", "i", "r", "e", "d", ")">>, <<"p", "i", "n", ":">>}

\* the parts of a component page the extraction reads: whether a div or section
\* with a configuration text exists, the table rows and definitions under its
\* parent, the code block's lines, the lines of the clean content
ComponentPages ==
    [config_section : BOOLEAN,
     rows : SeqsUpTo(PageRows, MaxRows),
     definitions : SeqsUpTo(PageDefinitions, MaxDefinitions),
     code : SeqsUpTo(PageCodeLines, MaxCodeLines),
     content : SeqsUpTo(PageContentLines, MaxContentLines)]

NoPage == [config_section |-> FALSE, rows |-> <<>>, definitions |-> <<>>, code |-> <<>>,
           content |-> <<>>]

NoExtractCall == [made |-> FALSE, page |-> NoPage, config_vars |-> <<>>]

\* scrape_component_page of one page, as far as its config_vars go; a call leaves
\* nothing behind for the next, so a behaviour makes one
ScrapeComponentPage ==
    /\ ~extract_call.made
    /\ \E page \in ComponentPages :
           extract_call' = [made |-> TRUE, page |-> page,
                            config_vars |-> ScrapedVariables(page)]

ExtractInit == extract_call = NoExtractCall

-----------------------------------------------------------------------------
(* Properties of the extraction *)

\* C23: the variable names are unique within the config_vars of every component
\* the extraction produces.
C23_NamesUnique ==
    extract_call.made =>
        \A i, j \in 1..Len(extract_call.config_vars) :
            i # j => extract_call.config_vars[i].name # extract_call.config_vars[j].name

\* the first variable called name
FirstNamed(config_vars, name) ==
    config_vars[CHOOSE j \in 1..Len(config_vars) :
                    /\ config_vars[j].name = name
                    /\ \A k \in 1..(j - 1) : config_vars[k].name # name]

\* line i of the content comes after a configuration heading
InSection(lines, i) == \E j \in 1..(i - 1) : IsConfigHeading(StrStrip(lines[j]))

\* line i is one the free-text scan reads: a "key: description" line of a
\* configuration section
FreeTextLine(lines, i) ==
    /\ ~IsConfigHeading(StrStrip(lines[i]))
    /\ VarMatch(StrStrip(lines[i]))
    /\ InSection(lines, i)

\* line i is one the known-key shortcut reads
KnownKeyLine(lines, i) ==
    /\ ~IsConfigHeading(StrStrip(lines[i]))
    /\ ~FreeTextLine(lines, i)
    /\ KnownKeyMatch(StrStrip(lines[i]))

RECURSIVE FreeTextPass(_, _)
\* the variables of the free-text lines from line i on
FreeTextPass(lines, i) ==
    IF i > Len(lines) THEN <<>>
    ELSE (IF FreeTextLine(lines, i) THEN <<FreeTextVariable(StrStrip(lines[i]))>> ELSE <<>>)
             \o FreeTextPass(lines, i + 1)

RECURSIVE KnownKeyPass(_, _)
\* the variables of the known-key lines from line i on
KnownKeyPass(lines, i) ==
    IF i > Len(lines) THEN <<>>
    ELSE (IF KnownKeyLine(lines, i) THEN <<KnownKeyVariable(StrStrip(lines[i]))>> ELSE <<>>)
             \o KnownKeyPass(lines, i + 1)

\* passes[p] is found before passes[p + 1]: a name keeps the variable of the
\* first pass that has it
EarliestWins(passes, config_vars) ==
    \A p \in 1..Len(passes) : \A j \in 1..Len(passes[p]) :
        LET name == passes[p][j].name IN
        (\A q \in 1..(p - 1) : ~HasName(passes[q], name))
            => /\ HasName(config_vars, name)
               /\ FirstNamed(config_vars, name) = FirstNamed(passes[p], name)

\* C21: a name found by more than one pass keeps the variable (description, type,
\* is_required) of the earliest pass, the passes being the markup tables and
\* definition lists, the code-block example, the free-text scan and the known-key
\* shortcut, in this order.
C21_EarliestPassWins ==
    extract_call.made =>
        EarliestWins(<<MarkupVariables(extract_call.page),
                       extract_vars_from_yaml(extract_call.page.code),
                       FreeTextPass(extract_call.page.content, 1),
                       KnownKeyPass(extract_call.page.content, 1)>>,
                     extract_call.config_vars)

\* the same with the scan of the content taken as one pass whose free-text and
\* known-key lines count in the order of the lines
EarliestOfThreeWins ==
    extract_call.made =>
        EarliestWins(<<MarkupVariables(extract_call.page),
                       extract_vars_from_yaml(extract_call.page.code),
                       parse_config_variables_from_content(extract_call.page.content)>>,
                     extract_call.config_vars)

-----------------------------------------------------------------------------
(* Specifications *)

vars == <<crawlVars, storeVars, variableVars, instanceVars, generatorVars, entryVars, mergeVars, validateVars, extractVars>>

exceptCrawl == <<storeVars, variableVars, instanceVars, generatorVars, entryVars, mergeVars, validateVars, extractVars>>
exceptStore == <<crawlVars, variableVars, instanceVars, generatorVars, entryVars, mergeVars, validateVars, extractVars>>
exceptVariable == <<crawlVars, storeVars, instanceVars, generatorVars, entryVars, mergeVars, validateVars, extractVars>>
exceptInstances == <<crawlVars, storeVars, variableVars, generatorVars, entryVars, mergeVars, validateVars, extractVars>>
exceptGenerator == <<crawlVars, storeVars, variableVars, instanceVars, entryVars, mergeVars, validateVars, extractVars>>
exceptEntry == <<crawlVars, storeVars, variableVars, instanceVars, generatorVars, mergeVars, validateVars, extractVars>>
exceptMerge == <<crawlVars, storeVars, variableVars, instanceVars, generatorVars, entryVars, validateVars, extractVars>>
exceptValidate ==
    <<crawlVars, storeVars, variableVars, instanceVars, generatorVars, entryVars, mergeVars,
      extractVars>>
exceptExtract ==
    <<crawlVars, storeVars, variableVars, instanceVars, generatorVars, entryVars, mergeVars,
      validateVars>>

Init ==
    CrawlInit /\ StoreInit /\ VariableInit /\ InstanceInit /\ GeneratorInit /\ EntryInit
        /\ MergeInit /\ ValidateInit /\ ExtractInit

\* the crawl: the worker thread with the GUI thread's handlers
Next ==
    \/ StartScraping /\ UNCHANGED exceptCrawl
    \/ InputDialogRejected /\ UNCHANGED exceptCrawl
    \/ InputDialogAccepted /\ UNCHANGED exceptCrawl
    \/ CancelScraping /\ UNCHANGED exceptCrawl
    \/ OnScrapingFinished /\ UNCHANGED exceptCrawl
    \/ OnScrapingError /\ UNCHANGED exceptCrawl
    \/ ErrorBoxClosed /\ UNCHANGED exceptCrawl
    \/ HandlerWaitDone /\ UNCHANGED exceptCrawl
    \/ \E t \in Threads : Reset(t) /\ UNCHANGED exceptCrawl
    \/ \E t \in Threads : FetchListingFails(t) /\ UNCHANGED exceptCrawl
    \/ \E t \in Threads : FetchListing(t) /\ UNCHANGED exceptCrawl
    \/ \E t \in Threads : CheckCanceled(t) /\ UNCHANGED exceptCrawl
    \/ \E t \in Threads : ScrapeBegin(t) /\ UNCHANGED exceptCrawl
    \/ \E t \in Threads : ScrapeEnd(t) /\ UNCHANGED exceptCrawl
    \/ \E t \in Threads : Sleep(t) /\ UNCHANGED exceptCrawl
    \/ \E t \in Threads : AfterLoop(t) /\ UNCHANGED exceptCrawl
    \/ \E t \in Threads : ThreadExit(t) /\ UNCHANGED exceptCrawl

Spec == Init /\ [][Next]_vars

\* what goes on without the user: the worker thread runs, and the event loop
\* delivers the queued signals and ends the handlers; a message box is closed
CrawlProgress ==
    \/ OnScrapingFinished /\ UNCHANGED exceptCrawl
    \/ OnScrapingError /\ UNCHANGED exceptCrawl
    \/ ErrorBoxClosed /\ UNCHANGED exceptCrawl
    \/ HandlerWaitDone /\ UNCHANGED exceptCrawl
    \/ \E t \in Threads :
           (\/ Reset(t) \/ FetchListingFails(t) \/ FetchListing(t) \/ CheckCanceled(t)
            \/ ScrapeBegin(t) \/ ScrapeEnd(t) \/ Sleep(t) \/ AfterLoop(t) \/ ThreadExit(t))
               /\ UNCHANGED exceptCrawl

\* the crawl with a worker thread and an event loop that keep running
SpecCrawlLive == Init /\ [][Next]_vars /\ WF_vars(CrawlProgress)

\* the store: one save at a time by the crawler, reads by the GUI
StoreNext ==
    \/ SaveInsertRow /\ UNCHANGED exceptStore
    \/ SaveReplaceVariables /\ UNCHANGED exceptStore
    \/ SaveCommit /\ UNCHANGED exceptStore
    \/ SaveError /\ UNCHANGED exceptStore
    \/ LoadComponent /\ UNCHANGED exceptStore
    \/ SearchComponents /\ UNCHANGED exceptStore
    \/ LoadSelectRow /\ UNCHANGED exceptStore
    \/ LoadSelectVariables /\ UNCHANGED exceptStore

SpecStore == Init /\ [][StoreNext]_vars

\* a ConfigVariable and the calls of set_value on it
VariableNext ==
    \/ NewConfigVariable /\ UNCHANGED exceptVariable
    \/ SetValue /\ UNCHANGED exceptVariable

SpecVariable == Init /\ [][VariableNext]_vars

\* components constructed, cloned and configured
InstanceNext ==
    \/ NewComponent /\ UNCHANGED exceptInstances
    \/ Clone /\ UNCHANGED exceptInstances
    \/ SetConfigValue /\ UNCHANGED exceptInstances

SpecInstances == Init /\ [][InstanceNext]_vars

\* configurations generated from lists of placed components
GeneratorNext == Generate /\ UNCHANGED exceptGenerator

SpecGenerator == Init /\ [][GeneratorNext]_vars

\* entries built for single components
EntryNext == GenerateEntry /\ UNCHANGED exceptEntry

SpecEntry == Init /\ [][EntryNext]_vars

\* merges of two documents, and of the empty document into the result
MergeNext ==
    \/ MergeYamlConfigs /\ UNCHANGED exceptMerge
    \/ DeepMergeEmpty /\ UNCHANGED exceptMerge

SpecMerge == Init /\ [][MergeNext]_vars

\* single calls of the validator
ValidateNext == ValidateByType /\ UNCHANGED exceptValidate

SpecValidate == Init /\ [][ValidateNext]_vars

\* extractions of single pages
ExtractNext == ScrapeComponentPage /\ UNCHANGED exceptExtract

SpecExtract == Init /\ [][ExtractNext]_vars

=============================================================================
